---------------------------- MODULE Spec2Model ----------------------------
(***************************************************************************)
(* Nova AI voice assistant: the per-utterance orchestration loop           *)
(* (frontend/app.py, handle_recognized_text), the confirmation gate for    *)
(* power actions, and the ordered rule matcher with its session context    *)
(* (backend/command_handler.py, CommandHandler.process_command).           *)
(*                                                                         *)
(* Text is modelled by TLA+ strings; the Python string primitives the      *)
(* code uses (in, split, replace, strip, startswith, title) are operators  *)
(* over them.  Recognized text is lower case (VoiceRecognizer              *)
(* .recognize_audio returns text.lower()).                                 *)
(***************************************************************************)
EXTENDS Integers, Sequences, FiniteSets, TLC

VARIABLES
    pending_system_action,  \* st.session_state.pending_system_action
    active_app,             \* CommandHandler.active_app
    active_profile,         \* CommandHandler.active_profile
    muted,                  \* TextToSpeech.muted
    conversation_history,   \* st.session_state.conversation_history
    groq_history,           \* GroqClient.conversation_history
    groq_messages,          \* messages of the request the last turn sent to the chat model
    last_command,           \* st.session_state.last_command
    last_response,          \* st.session_state.last_response
    spoken,                 \* the text whose playback the last turn started (None if none)
    calls,                  \* effector calls made by the last turn, in order
    stages,                 \* pipeline stages the last turn ran, in order
    cmd_result,             \* what process_command returned in the last turn
    turn_pending,           \* pending_system_action when the last turn began
    turns,                  \* number of utterances handled
    listening,              \* st.session_state.listening
    status,                 \* st.session_state.status
    is_listening,           \* VoiceRecognizer.is_listening
    audio_threads,          \* recognition threads started by start_listening, not yet run
    recognized_text_queue,  \* st.session_state.recognized_text_queue
    status_queue,           \* st.session_state.status_queue
    heard,                  \* utterances spoken into the microphone while listening
    speech_threads,         \* speak() worker threads alive: [text, pc]
    is_speaking,            \* TextToSpeech.is_speaking
    drain_pc,               \* where the main thread is in _drain_queues: idle / statuses / texts
    drain_owed              \* statuses queued when the running drain began and not applied yet

vars == <<pending_system_action, active_app, active_profile, muted, conversation_history,
          groq_history, groq_messages, last_command, last_response, spoken, calls, stages,
          cmd_result,
          turn_pending, turns, listening, status, is_listening, audio_threads,
          recognized_text_queue, status_queue, heard, speech_threads, is_speaking,
          drain_pc, drain_owed>>

None == "None"

(***************************************************************************)
(* Python string primitives                                                *)
(***************************************************************************)

\* p in t
Contains(t, p) ==
    \E i \in 1..(Len(t) - Len(p) + 1) : SubSeq(t, i, i + Len(p) - 1) = p

\* any(p in t for p in ps)
ContainsAny(t, ps) == \E p \in ps : Contains(t, p)

\* t.find(p) + 1 (0 when absent)
Find(t, p) ==
    IF Contains(t, p)
    THEN CHOOSE i \in 1..(Len(t) - Len(p) + 1) :
            /\ SubSeq(t, i, i + Len(p) - 1) = p
            /\ \A j \in 1..(i - 1) : SubSeq(t, j, j + Len(p) - 1) # p
    ELSE 0

\* t.rfind(p) + 1 (0 when absent)
RFind(t, p) ==
    IF Contains(t, p)
    THEN CHOOSE i \in 1..(Len(t) - Len(p) + 1) :
            /\ SubSeq(t, i, i + Len(p) - 1) = p
            /\ \A j \in (i + 1)..(Len(t) - Len(p) + 1) : SubSeq(t, j, j + Len(p) - 1) # p
    ELSE 0

\* t.startswith(p)
StartsWith(t, p) == Len(t) >= Len(p) /\ SubSeq(t, 1, Len(p)) = p

\* t.split(p, 1)[-1]: the text after the first occurrence of p (t itself when absent)
SplitFirstTail(t, p) ==
    IF Contains(t, p) THEN SubSeq(t, Find(t, p) + Len(p), Len(t)) ELSE t

\* t.split(p, 1)[0]: the text before the first occurrence of p
SplitFirstHead(t, p) ==
    IF Contains(t, p) THEN SubSeq(t, 1, Find(t, p) - 1) ELSE t

\* t.split(p)[-1]: the text after the last occurrence of p
SplitLastTail(t, p) ==
    IF Contains(t, p) THEN SubSeq(t, RFind(t, p) + Len(p), Len(t)) ELSE t

\* t.replace(old, new, 1)
ReplaceFirst(t, old, new) ==
    IF Contains(t, old)
    THEN SubSeq(t, 1, Find(t, old) - 1) \o new \o SubSeq(t, Find(t, old) + Len(old), Len(t))
    ELSE t

\* t.replace(old, new): every non-overlapping occurrence, left to right
RECURSIVE Replace(_, _, _)
Replace(t, old, new) ==
    IF Contains(t, old)
    THEN SubSeq(t, 1, Find(t, old) - 1) \o new
            \o Replace(SubSeq(t, Find(t, old) + Len(old), Len(t)), old, new)
    ELSE t

\* t.lstrip() / t.rstrip() / t.strip() over the blank
RECURSIVE LStrip(_)
LStrip(t) == IF Len(t) > 0 /\ SubSeq(t, 1, 1) = " " THEN LStrip(SubSeq(t, 2, Len(t))) ELSE t

RECURSIVE RStrip(_)
RStrip(t) ==
    IF Len(t) > 0 /\ SubSeq(t, Len(t), Len(t)) = " " THEN RStrip(SubSeq(t, 1, Len(t) - 1)) ELSE t

Strip(t) == LStrip(RStrip(t))

\* t.strip(c) for a single character c
RECURSIVE StripChar(_, _)
StripChar(t, c) ==
    IF Len(t) > 0 /\ SubSeq(t, 1, 1) = c THEN StripChar(SubSeq(t, 2, Len(t)), c)
    ELSE IF Len(t) > 0 /\ SubSeq(t, Len(t), Len(t)) = c THEN StripChar(SubSeq(t, 1, Len(t) - 1), c)
    ELSE t

\* t.strip().strip('"').strip("'")
StripQuotes(t) == StripChar(StripChar(Strip(t), "\""), "'")

\* len(t.split()): the number of blank-separated words
WordCount(t) ==
    Cardinality({i \in 1..Len(t) :
        /\ SubSeq(t, i, i) # " "
        /\ (i = 1 \/ SubSeq(t, i - 1, i - 1) = " ")})

LowerLetters == <<"a","b","c","d","e","f","g","h","i","j","k","l","m",
                  "n","o","p","q","r","s","t","u","v","w","x","y","z">>
UpperLetters == <<"A","B","C","D","E","F","G","H","I","J","K","L","M",
                  "N","O","P","Q","R","S","T","U","V","W","X","Y","Z">>

IsLower(c) == \E k \in 1..26 : LowerLetters[k] = c
IsUpper(c) == \E k \in 1..26 : UpperLetters[k] = c
ToUpper(c) == IF IsLower(c) THEN UpperLetters[CHOOSE k \in 1..26 : LowerLetters[k] = c] ELSE c
ToLower(c) == IF IsUpper(c) THEN LowerLetters[CHOOSE k \in 1..26 : UpperLetters[k] = c] ELSE c

\* t.lower()
RECURSIVE Lower(_)
Lower(t) == IF Len(t) = 0 THEN t ELSE ToLower(SubSeq(t, 1, 1)) \o Lower(SubSeq(t, 2, Len(t)))

\* t.title(): a letter that follows a non-letter is upper case, any other is lower case
RECURSIVE TitleFrom(_, _)
TitleFrom(t, afterLetter) ==
    IF Len(t) = 0 THEN t
    ELSE LET c == SubSeq(t, 1, 1)
             letter == IsLower(c) \/ IsUpper(c)
         IN (IF afterLetter THEN ToLower(c) ELSE ToUpper(c))
                \o TitleFrom(SubSeq(t, 2, Len(t)), letter)

Title(t) == TitleFrom(t, FALSE)

(***************************************************************************)
(* Effectors.  Every effector wraps its OS call in try/except and returns  *)
(* either its outcome string or a descriptive error string; which of the   *)
(* two happens is the environment's choice, so an effector is the set of   *)
(* results it can return.  E stands for the text of the exception.         *)
(***************************************************************************)

Call(name, arg) == <<name, arg>>

\* try: <os call>; return ok   except Exception: return err
Try(ok, err) == {ok, err}

\* pygetwindow active window title (None when unavailable)
WindowTitles == {None, "Google Chrome"}

\* clipboard text captured from the active selection (None when nothing is selected)
SelectedTexts == {None, "tla"}

get_active_window_title == WindowTitles

get_selected_text_from_active_window == SelectedTexts

open_website(url) ==
    Try("Opening website: "
            \o (IF StartsWith(url, "http://") \/ StartsWith(url, "https://")
                THEN url ELSE "https://" \o url),
        "Sorry, I couldn't open the website. Error: E")

desktop_open_recycle_bin ==
    Try("Opening Recycle Bin", "Sorry, I couldn't open the Recycle Bin. Error: E")

open_file_or_folder(path) ==
    {"I couldn't find this path on your computer: " \o path,
     "Opening " \o path,
     "Sorry, I couldn't open that path. Error: E"}

create_folder(path) ==
    Try("Created folder: " \o path, "Sorry, I couldn't create that folder. Error: E")

select_all_in_active_window ==
    {IF title # None THEN "Selecting everything in '" \o title \o "'"
     ELSE "Selecting everything in the active window" : title \in get_active_window_title}
    \cup {"Sorry, I couldn't select everything. Error: E"}

delete_selection_in_active_window ==
    {IF title # None THEN "Deleting selection in '" \o title \o "'"
     ELSE "Deleting the current selection in the active window" : title \in get_active_window_title}
    \cup {"Sorry, I couldn't delete the selection. Error: E"}

close_active_window ==
    {IF title # None THEN "Closing window: " \o title
     ELSE "Closing the active window" : title \in get_active_window_title}
    \cup {"Sorry, I couldn't close the active window. Error: E"}

type_text_in_active_window(text) ==
    IF text = "" THEN {"No text provided to type in the active window"}
    ELSE Try("Typing in the active window: " \o text,
             "Sorry, I couldn't type in the active window. Error: E")

save_in_active_window ==
    Try("Saving in the active window", "Sorry, I couldn't save in the active window. Error: E")

press_space ==
    Try("Pressed space in the active window", "Sorry, I couldn't press space. Error: E")

press_backspace ==
    Try("Pressed backspace 1 time(s) in the active window",
        "Sorry, I couldn't press backspace. Error: E")

press_enter ==
    Try("Pressed enter 1 time(s) in the active window", "Sorry, I couldn't press enter. Error: E")

confirm_active_dialog(accept) ==
    Try(IF accept THEN "Confirming the active dialog" ELSE "Dismissing the active dialog",
        "Sorry, I couldn't interact with the dialog. Error: E")

search_in_active_browser(query) ==
    IF query = "" THEN {"No query provided for searching in the active browser"}
    ELSE Try("Searching in the active browser window: " \o query,
             "Sorry, I couldn't search in the browser. Error: E")

new_document_in_active_app ==
    Try("Creating a new document in the active window",
        "Sorry, I couldn't create a new document. Error: E")

save_file_with_name(name, location_hint) ==
    LET safe_name == Strip(Replace(Replace(name, "\"", ""), "'", ""))
        base_dir == IF location_hint = "documents" THEN "~/Documents/" ELSE "~/Desktop/"
    IN IF name = "" THEN {"No file name provided to save."}
       ELSE IF safe_name = "" THEN {"File name was empty after cleaning, boss."}
       ELSE Try("Saving file as " \o base_dir \o safe_name,
                "Sorry, I couldn't save the file with that name. Error: E")

save_current_dialog_to_desktop ==
    Try("Saving the current file to Desktop: ~/Desktop", "Sorry, I couldn't save on Desktop. Error: E")

fill_random_people_in_excel ==
    Try("Filled Excel sheet with random data for 10 people",
        "Sorry, I couldn't fill Excel with random people data. Error: E")

fill_random_people_in_word ==
    Try("Inserted random people table into Word",
        "Sorry, I couldn't insert random people data in Word. Error: E")

scroll_down == Try("Scrolled down in the active window", "Sorry, I couldn't scroll down. Error: E")

scroll_up == Try("Scrolled up in the active window", "Sorry, I couldn't scroll up. Error: E")

left_click == Try("Clicked at the current mouse position", "Sorry, I couldn't click. Error: E")

right_click ==
    Try("Right-clicked at the current mouse position", "Sorry, I couldn't right-click. Error: E")

new_tab == Try("Opening a new browser tab", "Sorry, I couldn't open a new tab. Error: E")

close_tab == Try("Closing the current browser tab", "Sorry, I couldn't close the tab. Error: E")

next_tab ==
    Try("Switching to the next browser tab", "Sorry, I couldn't switch to the next tab. Error: E")

previous_tab ==
    Try("Switching to the previous browser tab",
        "Sorry, I couldn't switch to the previous tab. Error: E")

desktop_shutdown ==
    Try("Shutting down the computer", "Sorry, I couldn't shut down the computer. Error: E")

desktop_restart ==
    Try("Restarting the computer", "Sorry, I couldn't restart the computer. Error: E")

desktop_sleep ==
    Try("Putting the computer to sleep", "Sorry, I couldn't put the computer to sleep. Error: E")

get_time == {"The current time is HH:MM"}

get_date == {"Today's date is DATE"}

search_google(query) ==
    Try("Opening Google search for: " \o query, "Error opening Google search: E")

search_youtube(query) ==
    Try("Searching YouTube for " \o query, "Sorry, I couldn't search YouTube. Error: E")

(***************************************************************************)
(* Session context (CommandHandler.active_app / active_profile) and the    *)
(* CommandHandler methods that update it.  A method is the set of          *)
(* outcomes [result, active_app, active_profile] it can produce from the   *)
(* context ctx = [active_app, active_profile].                             *)
(***************************************************************************)

AppTags == {"chrome", "notepad", "word", "excel", "powerpoint", "recycle_bin", None}

Ctx(app, profile) == [active_app |-> app, active_profile |-> profile]

\* self.active_app = app; the profile is kept only for chrome
\* variant: a non-browser app keeps the stored profile
SetAppKeepingProfile(ctx, app, profile) ==
    Ctx(app, IF app = "chrome" THEN profile ELSE ctx.active_profile)

_set_active_app(ctx, app, profile) ==
    Ctx(app, IF app = "chrome" THEN profile ELSE None)

Res(result, ctx) ==
    [result |-> result, active_app |-> ctx.active_app, active_profile |-> ctx.active_profile]

\* variant: the launch never records Chrome as the active app
OpenChromeNoContext(ctx) ==
    { Res("Opening Google Chrome", ctx),
      Res("Opening browser", ctx),
      Res("Sorry, I couldn't open Chrome. Error: E", ctx) }

open_chrome(ctx) ==
    { Res("Opening Google Chrome", _set_active_app(ctx, "chrome", None)),
      Res("Opening browser", ctx),
      Res("Sorry, I couldn't open Chrome. Error: E", ctx) }

open_notepad(ctx) ==
    { Res("Opening Notepad", _set_active_app(ctx, "notepad", None)),
      Res("Sorry, I couldn't open Notepad. Error: E", ctx) }

open_word(ctx) ==
    { Res("Opening Microsoft Word", _set_active_app(ctx, "word", None)),
      Res("Sorry, I couldn't open Microsoft Word. Error: E", ctx) }

open_excel(ctx) ==
    { Res("Opening Microsoft Excel", _set_active_app(ctx, "excel", None)),
      Res("Sorry, I couldn't open Microsoft Excel. Error: E", ctx) }

open_powerpoint(ctx) ==
    { Res("Opening Microsoft PowerPoint", _set_active_app(ctx, "powerpoint", None)),
      Res("Sorry, I couldn't open Microsoft PowerPoint. Error: E", ctx) }

close_application(ctx, process_name) ==
    { Res("Closing application: " \o process_name,
          IF ctx.active_app = "chrome" /\ Contains(Lower(process_name), "chrome")
          THEN _set_active_app(ctx, None, None)
          ELSE IF ctx.active_app = "notepad" /\ Contains(Lower(process_name), "notepad")
          THEN _set_active_app(ctx, None, None)
          ELSE ctx),
      Res("Sorry, I couldn't close " \o process_name \o ". Error: E", ctx) }

open_chrome_profile(ctx, profile_name) ==
    LET profile == Title(Strip(profile_name))
    IN { Res("Opening Chrome with profile " \o profile, _set_active_app(ctx, "chrome", profile)),
         Res("Sorry, I couldn't open Chrome with that account. Error: E", ctx) }
       \cup open_chrome(ctx)

open_recycle_bin(ctx) ==
    { Res(r, _set_active_app(ctx, "recycle_bin", None)) : r \in desktop_open_recycle_bin }

shutdown_system == desktop_shutdown

restart_system == desktop_restart

sleep_system == desktop_sleep


(***************************************************************************)
(* CommandHandler.process_command: the ordered rule list.  Fires(rule, ..) *)
(* is the condition under which the code returns from that rule's block    *)
(* (its trigger test together with the inner test guarding the return);    *)
(* Handle(rule, ..) is what the block does and returns.                    *)
(***************************************************************************)

SHUTDOWN_REQUEST == "SYSTEM_SHUTDOWN_REQUEST"
RESTART_REQUEST == "SYSTEM_RESTART_REQUEST"
SLEEP_REQUEST == "SYSTEM_SLEEP_REQUEST"

Rules == <<
    "time", "date", "chrome", "notepad", "word", "excel", "powerpoint",
    "search", "recycle_bin", "dialog_yes", "dialog_no",
    "close_chrome", "close_notepad", "close_window",
    "chrome_profile", "profile", "website", "whatsapp", "chatgpt",
    "select_all", "delete", "search_selected", "browser_search",
    "space", "backspace", "enter", "type", "new_document", "data_fill",
    "save", "save_desktop", "save_named",
    "shutdown", "restart", "sleep",
    "scroll_down", "scroll_up", "left_click", "right_click",
    "new_tab", "next_tab", "previous_tab", "close_tab",
    "create_folder", "open_folder", "youtube" >>

\* variant: the selected-text phrasings are missing from the exclusion list
SearchExclusionsShort == {
    "search in chrome", "search in browser", "chrome search", "browser search",
    "search youtube", "youtube" }

\* variant: the YouTube phrasings are missing from the exclusion list
SearchExclusionsBrowserOnly == {
    "search this on chrome", "search this in chrome", "search selected text",
    "search in chrome", "search in browser", "chrome search", "browser search" }

SearchExclusions == {
    "search this on chrome", "search this in chrome", "search selected text",
    "search in chrome", "search in browser", "chrome search", "browser search",
    "search youtube", "youtube" }

\* variant: the text before the pattern is taken instead of the text after it
SearchPatternHead(text_lower) ==
    IF Contains(text_lower, "search for")
    THEN Strip(SplitFirstHead(text_lower, "search for"))
    ELSE IF Contains(text_lower, "search google for")
    THEN Strip(SplitFirstHead(text_lower, "search google for"))
    ELSE IF Contains(text_lower, "search google")
    THEN Strip(SplitFirstHead(text_lower, "search google"))
    ELSE IF StartsWith(text_lower, "search ")
    THEN Strip(ReplaceFirst(text_lower, "search", ""))
    ELSE ""

\* the query as first extracted by the generic search rule ("" when no pattern applies)
SearchPattern(text_lower) ==
    IF Contains(text_lower, "search for")
    THEN Strip(SplitFirstTail(text_lower, "search for"))
    ELSE IF Contains(text_lower, "search google for")
    THEN Strip(SplitFirstTail(text_lower, "search google for"))
    ELSE IF Contains(text_lower, "search google")
    THEN Strip(SplitFirstTail(text_lower, "search google"))
    ELSE IF StartsWith(text_lower, "search ")
    THEN Strip(ReplaceFirst(text_lower, "search", ""))
    ELSE ""

SearchFillers == <<"for", "about", "the", "a", "an", "please">>

\* variant: the list is scanned again after every removal, until no filler leads the query
RECURSIVE StripFillersRepeated(_, _)
StripFillersRepeated(query, k) ==
    IF k > Len(SearchFillers) THEN query
    ELSE IF StartsWith(query, SearchFillers[k] \o " ")
    THEN StripFillersRepeated(Strip(SubSeq(query, Len(SearchFillers[k]) + 1, Len(query))), 1)
    ELSE StripFillersRepeated(query, k + 1)

\* for filler in fillers[k..]: if query.startswith(filler + " "): query = query[len(filler):].strip()
RECURSIVE StripFillers(_, _)
StripFillers(query, k) ==
    IF k > Len(SearchFillers) THEN query
    ELSE IF StartsWith(query, SearchFillers[k] \o " ")
    THEN StripFillers(Strip(SubSeq(query, Len(SearchFillers[k]) + 1, Len(query))), k + 1)
    ELSE StripFillers(query, k + 1)

SearchQuery(text_lower) ==
    IF SearchPattern(text_lower) = "" THEN "" ELSE StripFillers(SearchPattern(text_lower), 1)

ChromeProfilePart(text_lower) ==
    LET part == IF Contains(text_lower, "open chrome with")
                THEN SplitFirstTail(text_lower, "open chrome with")
                ELSE SplitFirstTail(text_lower, "chrome profile")
    IN Strip(Replace(Replace(Replace(part, "account", ""), "name", ""), "profile", ""))

ProfilePart(text_lower) ==
    LET part == IF Contains(text_lower, "open profile")
                THEN SplitFirstTail(text_lower, "open profile")
                ELSE SplitFirstTail(text_lower, "profile")
    IN Strip(Replace(Replace(Replace(Replace(part, "open", ""), "account", ""), "name", ""),
                     "profile", ""))

WebsitePhrases == <<"open website", "website open", "site open", "open site">>

WebsiteCleaned(text_lower) ==
    Strip(Replace(
        Replace(Replace(Replace(Replace(text_lower, WebsitePhrases[1], ""),
                                WebsitePhrases[2], ""), WebsitePhrases[3], ""),
                WebsitePhrases[4], ""),
        "please", ""))

BrowserSearchCleaned(text_lower) ==
    Strip(Replace(
        Replace(Replace(Replace(Replace(Replace(text_lower, "search in chrome", ""),
                                        "search in browser", ""), "chrome search", ""),
                        "browser search", ""), "search", ""),
        "please", ""))

\* raw_suffix = text[text_lower.rfind("type "):], less its first "type " and every "please"
TypeSuffix(text, text_lower) ==
    Strip(Replace(ReplaceFirst(SubSeq(text, RFind(text_lower, "type "), Len(text)), "type ", ""),
                  "please", ""))

SaveNameAfter(raw_text) == Strip(SplitFirstTail(Lower(raw_text), "save file with name"))

SaveLocationHint(raw_text) ==
    IF ContainsAny(SaveNameAfter(raw_text), {"in documents", "on documents"}) THEN "documents"
    ELSE IF ContainsAny(SaveNameAfter(raw_text), {"on desktop", "in desktop"}) THEN "desktop"
    ELSE None

SaveNamePart(raw_text) ==
    LET after == SaveNameAfter(raw_text)
        desk == IF Contains(after, "on desktop") THEN Strip(SplitFirstHead(after, "on desktop"))
                ELSE IF Contains(after, "in desktop") THEN Strip(SplitFirstHead(after, "in desktop"))
                ELSE after
        part == IF Contains(after, "in documents") THEN Strip(SplitFirstHead(after, "in documents"))
                ELSE IF Contains(after, "on documents") THEN Strip(SplitFirstHead(after, "on documents"))
                ELSE desk
        cleaned == Replace(Replace(Replace(Replace(Replace(Replace(part,
                        "called", ""), "named", ""), "name", ""), "file", ""), "folder", ""), "as", "")
    IN StripQuotes(cleaned)

_save_with_name_to_location(raw_text) ==
    IF SaveNamePart(raw_text) = "" THEN {"File name was not clear. Please specify a file name."}
    ELSE save_file_with_name(SaveNamePart(raw_text), SaveLocationHint(raw_text))

CreateFolderHint(text_lower) ==
    LET after == Strip(SplitFirstTail(text_lower, "create folder"))
    IN IF Contains(after, "on desktop") THEN "desktop"
       ELSE IF Contains(after, "in documents") THEN "documents" ELSE ""

CreateFolderName(text_lower) ==
    LET after == Strip(SplitFirstTail(text_lower, "create folder"))
    IN StripQuotes(IF Contains(after, "on desktop") THEN Strip(Replace(after, "on desktop", ""))
                   ELSE IF Contains(after, "in documents")
                   THEN Strip(Replace(after, "in documents", ""))
                   ELSE after)

OpenFolderName(text_lower) ==
    LET part == IF Contains(text_lower, "open folder")
                THEN SplitFirstTail(text_lower, "open folder")
                ELSE SplitFirstTail(text_lower, "folder")
    IN StripQuotes(Replace(Replace(part, "open", ""), "please", ""))

YoutubeQuery(text_lower) ==
    LET tail == IF Contains(text_lower, "search youtube for")
                THEN Strip(SplitLastTail(text_lower, "search youtube for"))
                ELSE IF Contains(text_lower, "play on youtube")
                THEN Strip(SplitLastTail(text_lower, "play on youtube"))
                ELSE IF Contains(text_lower, "youtube")
                THEN Strip(SplitLastTail(text_lower, "youtube"))
                ELSE text_lower
    IN Strip(Replace(Replace(tail, "play", ""), "on", ""))

\* variant: the selection is deleted without selecting everything first
DeleteCallsSelectionOnly(text_lower) == <<Call("delete_selection_in_active_window", "")>>

\* the effectors the delete rule invokes, in order
DeleteCalls(text_lower) ==
    IF ContainsAny(text_lower, {"delete everything", "delete all"})
    THEN <<Call("select_all_in_active_window", ""),
           Call("delete_selection_in_active_window", "")>>
    ELSE <<Call("delete_selection_in_active_window", "")>>

_search_selected_text_in_chrome(ctx) ==
    UNION { IF ~((title # None /\ ContainsAny(Lower(title), {"chrome", "google"}))
                 \/ ctx.active_app = "chrome")
            THEN {"Chrome is not the active window right now."}
            ELSE UNION { IF selected = None
                         THEN {"No text is currently selected on screen. Please select some text first, then say 'search this on Chrome'."}
                         ELSE search_in_active_browser(selected)
                         : selected \in get_selected_text_from_active_window }
            : title \in get_active_window_title }

\* variant: the shortcut rules look at the stored profile instead of the active app
InActiveBrowserByProfile(ctx) == ctx.active_profile # None

\* self.active_app == "chrome": the shortcut is typed into the browser window already open
InActiveBrowser(ctx) == ctx.active_app = "chrome"

\* variant: the data fill goes to Excel whenever Word is not the active app
FillTargetUngated(ctx) ==
    IF ctx.active_app = "word" THEN "word" ELSE "excel"

\* the application the random-people rule fills (None: the rule is passed over)
FillTarget(ctx) ==
    IF ctx.active_app = "excel" THEN "excel"
    ELSE IF ctx.active_app = "word" THEN "word" ELSE None

Fires(rule, text, text_lower, ctx) ==
    CASE rule = "time" -> ContainsAny(text_lower, {"time", "what time", "current time"})
      [] rule = "date" ->
            ContainsAny(text_lower, {"date", "what date", "today's date", "todays date"})
      [] rule = "chrome" ->
            ContainsAny(text_lower, {"open chrome", "open google chrome", "google chrome"})
      [] rule = "notepad" -> ContainsAny(text_lower, {"open notepad", "notepad"})
      [] rule = "word" -> ContainsAny(text_lower, {"open word", "microsoft word"})
      [] rule = "excel" -> ContainsAny(text_lower, {"open excel", "microsoft excel"})
      [] rule = "powerpoint" ->
            ContainsAny(text_lower, {"open powerpoint", "microsoft powerpoint"})
      [] rule = "search" ->
            /\ Contains(text_lower, "search")
            /\ ~ContainsAny(text_lower, SearchExclusions)
            /\ SearchQuery(text_lower) # ""
      [] rule = "recycle_bin" -> ContainsAny(text_lower, {"recycle bin", "dustbin"})
      [] rule = "dialog_yes" -> ContainsAny(text_lower, {"yes", "confirm", "ok", "okay"})
      [] rule = "dialog_no" -> ContainsAny(text_lower, {"no", "cancel", "abort"})
      [] rule = "close_chrome" -> Contains(text_lower, "close chrome")
      [] rule = "close_notepad" -> Contains(text_lower, "close notepad")
      [] rule = "close_window" ->
            ContainsAny(text_lower, {"close it", "close this", "close window"})
      [] rule = "chrome_profile" ->
            /\ ContainsAny(text_lower, {"open chrome with", "chrome profile"})
            /\ ChromeProfilePart(text_lower) # ""
      [] rule = "profile" ->
            /\ ContainsAny(text_lower, {"open profile", "profile "})
            /\ ProfilePart(text_lower) # ""
      [] rule = "website" ->
            /\ ContainsAny(text_lower, {"open website", "website open", "site open", "open site"})
            /\ WebsiteCleaned(text_lower) # ""
      [] rule = "whatsapp" -> Contains(text_lower, "whatsapp")
      [] rule = "chatgpt" -> ContainsAny(text_lower, {"chatgpt", "chat gpt", "open ai chat"})
      [] rule = "select_all" -> ContainsAny(text_lower, {"select everything", "select all"})
      [] rule = "delete" ->
            ContainsAny(text_lower, {"delete this", "delete everything", "delete all"})
      [] rule = "search_selected" ->
            ContainsAny(text_lower,
                {"search this on chrome", "search this in chrome", "search selected text"})
      [] rule = "browser_search" ->
            /\ ContainsAny(text_lower,
                {"search in chrome", "search in browser", "chrome search", "browser search"})
            /\ BrowserSearchCleaned(text_lower) # ""
      [] rule = "space" ->
            /\ ContainsAny(text_lower, {"space", "add space", "insert space"})
            /\ ~Contains(text_lower, "backspace")
      [] rule = "backspace" ->
            ContainsAny(text_lower, {"backspace", "delete character", "remove character"})
      [] rule = "enter" ->
            ContainsAny(text_lower,
                {"enter", "press enter", "next line", "new line", "line break"})
      [] rule = "type" ->
            /\ Contains(text_lower, "type ")
            /\ TypeSuffix(text, text_lower) # ""
      [] rule = "new_document" -> ContainsAny(text_lower, {"open new tab", "new tab", "new file"})
      [] rule = "data_fill" ->
            /\ ContainsAny(text_lower,
                {"10 random people", "ten random people", "random people data",
                 "people table", "insert table for 10 people"})
            /\ FillTarget(ctx) # None
      [] rule = "save" ->
            ContainsAny(text_lower, {"save this", "save it", "save note", "save file"})
      [] rule = "save_desktop" -> ContainsAny(text_lower, {"save on desktop", "save to desktop"})
      [] rule = "save_named" -> Contains(text_lower, "save file with name")
      [] rule = "shutdown" -> ContainsAny(text_lower, {"shutdown", "shut down"})
      [] rule = "restart" -> ContainsAny(text_lower, {"restart", "reboot"})
      [] rule = "sleep" -> ContainsAny(text_lower, {"sleep", "sleep mode"})
      [] rule = "scroll_down" -> ContainsAny(text_lower, {"scroll down", "page down"})
      [] rule = "scroll_up" -> ContainsAny(text_lower, {"scroll up", "page up"})
      [] rule = "left_click" -> ContainsAny(text_lower, {"click that", "click", "left click"})
      [] rule = "right_click" -> ContainsAny(text_lower, {"right click", "right-click"})
      [] rule = "new_tab" -> ContainsAny(text_lower, {"new tab", "open new tab"})
      [] rule = "next_tab" -> ContainsAny(text_lower, {"next tab", "switch to next tab"})
      [] rule = "previous_tab" ->
            ContainsAny(text_lower, {"previous tab", "switch to previous tab"})
      [] rule = "close_tab" -> ContainsAny(text_lower, {"close tab", "close this tab"})
      [] rule = "create_folder" -> Contains(text_lower, "create folder")
      [] rule = "open_folder" ->
            /\ ContainsAny(text_lower, {"open folder", "folder "})
            /\ OpenFolderName(text_lower) # ""
      [] rule = "youtube" ->
            /\ ContainsAny(text_lower, {"search youtube for", "youtube", "play"})
            /\ Len(YoutubeQuery(text_lower)) > 2


\* the outer test of a rule's block alone: its trigger phrases occur in the utterance
Triggered(rule, text, text_lower) ==
    CASE rule = "search" -> Contains(text_lower, "search")
      [] rule = "chrome_profile" -> ContainsAny(text_lower, {"open chrome with", "chrome profile"})
      [] rule = "profile" -> ContainsAny(text_lower, {"open profile", "profile "})
      [] rule = "website" ->
            ContainsAny(text_lower, {"open website", "website open", "site open", "open site"})
      [] rule = "browser_search" ->
            ContainsAny(text_lower,
                {"search in chrome", "search in browser", "chrome search", "browser search"})
      [] rule = "type" -> Contains(text_lower, "type ")
      [] rule = "data_fill" ->
            ContainsAny(text_lower,
                {"10 random people", "ten random people", "random people data",
                 "people table", "insert table for 10 people"})
      [] rule = "open_folder" -> ContainsAny(text_lower, {"open folder", "folder "})
      [] rule = "youtube" -> ContainsAny(text_lower, {"search youtube for", "youtube", "play"})
      [] OTHER -> Fires(rule, text, text_lower, Ctx(None, None))

\* re.search(r"([a-zA-Z0-9\-]+\.[a-zA-Z]{2,})(/[^\s]*)?", text): the leftmost match ("" if none)
IsLetter(c) == IsLower(c) \/ IsUpper(c)
IsDomainChar(c) == IsLetter(c) \/ c \in {"0","1","2","3","4","5","6","7","8","9","-"}
CharAt(t, i) == IF i >= 1 /\ i <= Len(t) THEN SubSeq(t, i, i) ELSE ""

\* index of the last character of the run of domain characters / letters / non-blanks from i
RECURSIVE DomainRunEnd(_, _)
DomainRunEnd(t, i) == IF IsDomainChar(CharAt(t, i + 1)) THEN DomainRunEnd(t, i + 1) ELSE i
RECURSIVE LetterRunEnd(_, _)
LetterRunEnd(t, i) == IF IsLetter(CharAt(t, i + 1)) THEN LetterRunEnd(t, i + 1) ELSE i
RECURSIVE NonBlankRunEnd(_, _)
NonBlankRunEnd(t, i) ==
    IF CharAt(t, i + 1) # "" /\ CharAt(t, i + 1) # " " THEN NonBlankRunEnd(t, i + 1) ELSE i

DomainStarts(t) ==
    {i \in 1..Len(t) :
        /\ IsDomainChar(CharAt(t, i))
        /\ CharAt(t, DomainRunEnd(t, i) + 1) = "."
        /\ IsLetter(CharAt(t, DomainRunEnd(t, i) + 2))
        /\ IsLetter(CharAt(t, DomainRunEnd(t, i) + 3))}

UrlMatch(t) ==
    IF DomainStarts(t) = {} THEN ""
    ELSE LET i == CHOOSE a \in DomainStarts(t) : \A b \in DomainStarts(t) : a <= b
             tld == LetterRunEnd(t, DomainRunEnd(t, i) + 2)
             last == IF CharAt(t, tld + 1) = "/" THEN NonBlankRunEnd(t, tld + 1) ELSE tld
         IN SubSeq(t, i, last)

Plain(results, ctx, invoked) ==
    {[result |-> r, active_app |-> ctx.active_app, active_profile |-> ctx.active_profile,
      calls |-> invoked] : r \in results}

WithCalls(outcomes, invoked) ==
    {[result |-> o.result, active_app |-> o.active_app, active_profile |-> o.active_profile,
      calls |-> invoked] : o \in outcomes}

open_website_from_text(text, ctx) ==
    IF UrlMatch(Strip(text)) # ""
    THEN Plain(open_website(UrlMatch(Strip(text))), ctx,
               <<Call("open_website", UrlMatch(Strip(text)))>>)
    ELSE Plain(search_google(Strip(text)), ctx, <<Call("search_google", Strip(text))>>)

Handle(rule, text, text_lower, ctx) ==
    CASE rule = "time" -> Plain(get_time, ctx, <<Call("get_time", "")>>)
      [] rule = "date" -> Plain(get_date, ctx, <<Call("get_date", "")>>)
      [] rule = "chrome" -> WithCalls(open_chrome(ctx), <<Call("open_chrome", "")>>)
      [] rule = "notepad" -> WithCalls(open_notepad(ctx), <<Call("open_notepad", "")>>)
      [] rule = "word" -> WithCalls(open_word(ctx), <<Call("open_word", "")>>)
      [] rule = "excel" -> WithCalls(open_excel(ctx), <<Call("open_excel", "")>>)
      [] rule = "powerpoint" -> WithCalls(open_powerpoint(ctx), <<Call("open_powerpoint", "")>>)
      [] rule = "search" ->
            Plain(search_google(SearchQuery(text_lower)), ctx,
                  <<Call("search_google", SearchQuery(text_lower))>>)
      [] rule = "recycle_bin" ->
            WithCalls(open_recycle_bin(ctx), <<Call("open_recycle_bin", "")>>)
      [] rule = "dialog_yes" ->
            Plain(confirm_active_dialog(TRUE), ctx, <<Call("confirm_active_dialog", "accept")>>)
      [] rule = "dialog_no" ->
            Plain(confirm_active_dialog(FALSE), ctx, <<Call("confirm_active_dialog", "reject")>>)
      [] rule = "close_chrome" ->
            WithCalls(close_application(ctx, "chrome.exe"),
                      <<Call("close_application", "chrome.exe")>>)
      [] rule = "close_notepad" ->
            WithCalls(close_application(ctx, "notepad.exe"),
                      <<Call("close_application", "notepad.exe")>>)
      [] rule = "close_window" ->
            Plain(close_active_window, _set_active_app(ctx, None, None),
                  <<Call("close_active_window", "")>>)
      [] rule = "chrome_profile" ->
            WithCalls(open_chrome_profile(ctx, ChromeProfilePart(text_lower)),
                      <<Call("open_chrome_profile", ChromeProfilePart(text_lower))>>)
      [] rule = "profile" ->
            WithCalls(open_chrome_profile(ctx, ProfilePart(text_lower)),
                      <<Call("open_chrome_profile", ProfilePart(text_lower))>>)
      [] rule = "website" -> open_website_from_text(WebsiteCleaned(text_lower), ctx)
      [] rule = "whatsapp" ->
            IF InActiveBrowser(ctx)
            THEN Plain(search_in_active_browser("https://web.whatsapp.com"), ctx,
                       <<Call("search_in_active_browser", "https://web.whatsapp.com")>>)
            ELSE Plain(open_website("web.whatsapp.com"), ctx,
                       <<Call("open_website", "web.whatsapp.com")>>)
      [] rule = "chatgpt" ->
            IF InActiveBrowser(ctx)
            THEN Plain(search_in_active_browser("https://chatgpt.com"), ctx,
                       <<Call("search_in_active_browser", "https://chatgpt.com")>>)
            ELSE Plain(open_website("https://chatgpt.com"), ctx,
                       <<Call("open_website", "https://chatgpt.com")>>)
      [] rule = "select_all" ->
            Plain(select_all_in_active_window, ctx, <<Call("select_all_in_active_window", "")>>)
      [] rule = "delete" ->
            Plain(delete_selection_in_active_window, ctx, DeleteCalls(text_lower))
      [] rule = "search_selected" ->
            Plain(_search_selected_text_in_chrome(ctx), ctx,
                  <<Call("_search_selected_text_in_chrome", "")>>)
      [] rule = "browser_search" ->
            Plain(search_in_active_browser(BrowserSearchCleaned(text_lower)), ctx,
                  <<Call("search_in_active_browser", BrowserSearchCleaned(text_lower))>>)
      [] rule = "space" -> Plain(press_space, ctx, <<Call("press_space", "")>>)
      [] rule = "backspace" -> Plain(press_backspace, ctx, <<Call("press_backspace", "")>>)
      [] rule = "enter" -> Plain(press_enter, ctx, <<Call("press_enter", "")>>)
      [] rule = "type" ->
            Plain(type_text_in_active_window(TypeSuffix(text, text_lower)), ctx,
                  <<Call("type_text_in_active_window", TypeSuffix(text, text_lower))>>)
      [] rule = "new_document" ->
            Plain(new_document_in_active_app, ctx, <<Call("new_document_in_active_app", "")>>)
      [] rule = "data_fill" ->
            IF FillTarget(ctx) = "excel"
            THEN Plain(fill_random_people_in_excel, ctx,
                       <<Call("fill_random_people_in_excel", "")>>)
            ELSE Plain(fill_random_people_in_word, ctx,
                       <<Call("fill_random_people_in_word", "")>>)
      [] rule = "save" -> Plain(save_in_active_window, ctx, <<Call("save_in_active_window", "")>>)
      [] rule = "save_desktop" ->
            Plain(save_current_dialog_to_desktop, ctx,
                  <<Call("save_current_dialog_to_desktop", "")>>)
      [] rule = "save_named" ->
            Plain(_save_with_name_to_location(text), ctx,
                  IF SaveNamePart(text) = "" THEN <<>>
                  ELSE <<Call("save_file_with_name", SaveNamePart(text))>>)
      [] rule = "shutdown" -> Plain({SHUTDOWN_REQUEST}, ctx, <<>>)
      [] rule = "restart" -> Plain({RESTART_REQUEST}, ctx, <<>>)
      [] rule = "sleep" -> Plain({SLEEP_REQUEST}, ctx, <<>>)
      [] rule = "scroll_down" -> Plain(scroll_down, ctx, <<Call("scroll_down", "")>>)
      [] rule = "scroll_up" -> Plain(scroll_up, ctx, <<Call("scroll_up", "")>>)
      [] rule = "left_click" -> Plain(left_click, ctx, <<Call("left_click", "")>>)
      [] rule = "right_click" -> Plain(right_click, ctx, <<Call("right_click", "")>>)
      [] rule = "new_tab" -> Plain(new_tab, ctx, <<Call("new_tab", "")>>)
      [] rule = "next_tab" -> Plain(next_tab, ctx, <<Call("next_tab", "")>>)
      [] rule = "previous_tab" -> Plain(previous_tab, ctx, <<Call("previous_tab", "")>>)
      [] rule = "close_tab" -> Plain(close_tab, ctx, <<Call("close_tab", "")>>)
      [] rule = "create_folder" ->
            IF CreateFolderName(text_lower) = ""
            THEN Plain({"Folder name was not clear. Please specify a folder name."}, ctx, <<>>)
            ELSE LET base_dir == IF CreateFolderHint(text_lower) = "desktop" THEN "~/Desktop/"
                                 ELSE IF CreateFolderHint(text_lower) = "documents"
                                 THEN "~/Documents/" ELSE "~/"
                     full_path == base_dir \o CreateFolderName(text_lower)
                 IN Plain(create_folder(full_path), ctx, <<Call("create_folder", full_path)>>)
      [] rule = "open_folder" ->
            LET folder_name == OpenFolderName(text_lower)
                target == IF folder_name = "desktop" THEN "~/Desktop"
                          ELSE IF folder_name = "documents" THEN "~/Documents"
                          ELSE IF folder_name = "downloads" THEN "~/Downloads"
                          ELSE "~/Desktop/" \o folder_name
            IN Plain(open_file_or_folder(target), ctx, <<Call("open_file_or_folder", target)>>)
      [] rule = "youtube" ->
            Plain(search_youtube(YoutubeQuery(text_lower)), ctx,
                  <<Call("search_youtube", YoutubeQuery(text_lower))>>)

\* the rule whose block returns: the earliest one in the order that fires
\* variant: the last rule whose trigger matches wins
LastFired(fired) == CHOOSE i \in fired : \A j \in fired : i >= j

FirstFired(fired) == CHOOSE i \in fired : \A j \in fired : i <= j

process_command(text, ctx) ==
    LET text_lower == Strip(Lower(text))
        fired == {i \in 1..Len(Rules) : Fires(Rules[i], text, text_lower, ctx)}
    IN IF fired = {} THEN Plain({None}, ctx, <<>>)
       ELSE Handle(Rules[FirstFired(fired)], text, text_lower, ctx)


(***************************************************************************)
(* frontend/app.py: confirmation gate and the per-utterance pipeline.      *)
(***************************************************************************)

PowerKinds == {"shutdown", "restart", "sleep"}

Positives == {"yes", "ok", "okay", "confirm", "proceed", "go ahead", "sure", "yep"}
\* variant: only two of the negative keywords are recognised
NegativesShort == {"no", "cancel"}
Negatives == {"no", "cancel", "abort", "stop", "don't", "do not", "nope"}

_is_positive_confirmation(text) == ContainsAny(Lower(text), Positives)

_is_negative_confirmation(text) == ContainsAny(Lower(text), Negatives)

MuteKeywords == {"stop", "chup ho jao"}
UnmuteKeywords == {"speak", "bolo"}

IsMuteUtterance(text) == ContainsAny(Lower(text), MuteKeywords)
IsUnmuteUtterance(text) == ContainsAny(Lower(text), UnmuteKeywords)

MuteMessage == "Okay, I'll stay quiet until you say 'speak' or 'bolo'."
UnmuteMessage == "Voice output is back on. I'll speak my responses again."
CancelMessage == "System action cancelled. No changes made."

CompletionMessage(action) ==
    CASE action = "shutdown" -> "Shutting down the system now."
      [] action = "restart" -> "Restarting the system now."
      [] action = "sleep" -> "Putting the system to sleep now."
      [] OTHER -> "Unknown system action. Please try again."

\* variant: the re-prompt does not name the requested action
RepromptGeneric(action_type) ==
    "Please confirm by saying 'yes' to proceed or 'no' to cancel."

RepromptMessage(action_type) ==
    "You requested a " \o action_type
        \o " action. Please confirm by saying 'yes' to proceed or 'no' to cancel."

ConfirmationPrompt(kind) ==
    CASE kind = "shutdown" ->
            "Boss, kya aap waqai system shutdown karwana chahte hain? Please bolen: 'haan' ya 'nahi'."
      [] kind = "restart" ->
            "Boss, system restart kar doon? Agar haan to bolen 'haan', warna 'nahi'."
      [] kind = "sleep" ->
            "Boss, system ko sleep mode mein daal doon? Please confirm: 'haan' ya 'nahi'."

\* the power effector the stored action runs
PowerCall(action) ==
    CASE action = "shutdown" -> Call("shutdown_system", "")
      [] action = "restart" -> Call("restart_system", "")
      [] action = "sleep" -> Call("sleep_system", "")

PowerCalls == {PowerCall(k) : k \in PowerKinds}

\* st.session_state.language_mode is set to "english" at start-up and never reassigned
language_mode == "english"

\* variant: the effector runs but the pending action is not cleared
ExecuteKeepingPending(action) ==
    IF action \in PowerKinds
    THEN [pending |-> action, response |-> CompletionMessage(action),
          calls |-> <<PowerCall(action)>>]
    ELSE [pending |-> action, response |-> CompletionMessage(action), calls |-> <<>>]

\* _execute_pending_system_action: clears the pending action, runs its effector
_execute_pending_system_action(action) ==
    IF action = None
    THEN [pending |-> None, response |-> "No pending system action to execute.", calls |-> <<>>]
    ELSE IF action \in PowerKinds
    THEN [pending |-> None, response |-> CompletionMessage(action),
          calls |-> <<PowerCall(action)>>]
    ELSE [pending |-> None, response |-> CompletionMessage(action), calls |-> <<>>]

\* variant: the restart and sleep sentinels are mapped to each other's kind
SentinelKindSwapped(result) ==
    CASE result = SHUTDOWN_REQUEST -> "shutdown"
      [] result = RESTART_REQUEST -> "sleep"
      [] result = SLEEP_REQUEST -> "restart"
      [] OTHER -> None

\* the sentinel the router returns for a power phrase, and the kind it asks for
SentinelKind(result) ==
    CASE result = SHUTDOWN_REQUEST -> "shutdown"
      [] result = RESTART_REQUEST -> "restart"
      [] result = SLEEP_REQUEST -> "sleep"
      [] OTHER -> None

\* the acknowledgement chosen for a handled (non-sentinel) router result
Acknowledge(lower_text, result) ==
    LET urdu == language_mode = "urdu"
    IN  IF ContainsAny(lower_text, {"time", "waqt"})
        THEN (IF urdu THEN "Ji boss, abhi ka time hai: " ELSE "Yes boss, the current time is: ")
                \o result
        ELSE IF ContainsAny(lower_text, {"date", "tareekh"})
        THEN (IF urdu THEN "Ji boss, aaj ki tareekh hai: " ELSE "Yes boss, today's date is: ")
                \o result
        ELSE IF ContainsAny(lower_text, {"recycle bin", "kooda", "dustbin"})
        THEN (IF urdu THEN "Ji boss, Recycle Bin khol diya hai."
              ELSE "Yes boss, I have opened the Recycle Bin.")
        ELSE IF Contains(lower_text, "chrome") /\ Contains(lower_text, "close")
        THEN (IF urdu THEN "Ji boss, Chrome band kar diya hai." ELSE "Yes boss, I have closed Chrome.")
        ELSE IF Contains(lower_text, "notepad") /\ Contains(lower_text, "close")
        THEN (IF urdu THEN "Ji boss, Notepad band kar diya hai."
              ELSE "Yes boss, I have closed Notepad.")
        ELSE IF Contains(lower_text, "chrome")
        THEN (IF urdu THEN "Ji boss, Google Chrome khol diya hai."
              ELSE "Yes boss, I have opened Google Chrome.")
        ELSE IF Contains(lower_text, "notepad")
        THEN (IF urdu THEN "Ji boss, Notepad khol diya hai." ELSE "Yes boss, I have opened Notepad.")
        ELSE IF Contains(lower_text, "youtube")
        THEN (IF urdu THEN "Ji boss, YouTube par aapki command ke mutabiq search kar raha hoon."
              ELSE "Yes boss, I am searching on YouTube as you requested.")
        ELSE IF Contains(lower_text, "google")
        THEN (IF urdu THEN "Ji boss, Google par aapka search chala diya hai."
              ELSE "Yes boss, I have run your search on Google.")
        ELSE IF ContainsAny(lower_text, {"select everything", "select all", "sab select karo"})
        THEN (IF urdu THEN "Ji boss, current window mein sab select kar diya hai."
              ELSE "Yes boss, I have selected everything in the current window.")
        ELSE IF ContainsAny(lower_text,
                    {"delete this", "ye delete karo", "delete everything", "sab delete karo"})
        THEN (IF urdu THEN "Ji boss, jo cheezen select theen unko delete kar diya hai."
              ELSE "Yes boss, I have deleted the selected items.")
        ELSE IF ContainsAny(lower_text, {"chrome par", "chrome pe", "browser par", "browser pe"})
        THEN (IF urdu THEN "Ji boss, current browser window mein aapka search chala diya hai."
              ELSE "Yes boss, I have run your search in the current browser window.")
        ELSE (IF urdu THEN "Ji boss, aapka command execute kar diya: "
              ELSE "Yes boss, I have executed your command: ") \o result

SearchIndicators == <<"search for", "what is", "who is", "where is", "how to", "tell me about">>

LooksLikeSearch(text) ==
    \/ \E k \in 1..Len(SearchIndicators) : Contains(Lower(text), SearchIndicators[k])
    \/ (WordCount(text) > 2 /\ Contains(text, "?"))

\* the query of the search heuristic: the text after the first indicator present, else the text
HeuristicQuery(text) ==
    LET present == {k \in 1..Len(SearchIndicators) : Contains(Lower(text), SearchIndicators[k])}
    IN IF present = {} THEN text
       ELSE Strip(SplitFirstTail(Lower(text),
                SearchIndicators[CHOOSE k \in present : \A j \in present : k <= j]))

AuthoringVerbs == {"write ", "generate ", "create a paragraph", "create paragraph", "type "}

GroqReply == "REPLY"
GroqError == "Maaf kijiye boss, mujhe koi masla aa gaya: E"

\* GroqClient.chat_as_atlas: the reply, or the error string when the request fails
chat_as_atlas == {[reply |-> GroqReply, ok |-> TRUE], [reply |-> GroqError, ok |-> FALSE]}


NOT_CALLED == "NOT_CALLED"

Stage(name, resolved) == [stage |-> name, resolved |-> resolved]

\* step 0: the mute / unmute intercept (returns before anything else is looked at)
\* variant: the intercept drops the pending action
VoiceControlDroppingPending(text, pending, ctx) ==
    [voice |-> IF IsMuteUtterance(text) THEN "mute" ELSE "unmute",
     pending |-> None, active_app |-> ctx.active_app, active_profile |-> ctx.active_profile,
     response |-> IF IsMuteUtterance(text) THEN MuteMessage ELSE UnmuteMessage,
     calls |-> <<>>, stages |-> <<Stage("voice_control", TRUE)>>,
     cmd_result |-> NOT_CALLED, groq |-> None]

VoiceControl(text, pending, ctx) ==
    [voice |-> IF IsMuteUtterance(text) THEN "mute" ELSE "unmute",
     pending |-> pending, active_app |-> ctx.active_app, active_profile |-> ctx.active_profile,
     response |-> IF IsMuteUtterance(text) THEN MuteMessage ELSE UnmuteMessage,
     calls |-> <<>>, stages |-> <<Stage("voice_control", TRUE)>>,
     cmd_result |-> NOT_CALLED, groq |-> None]

\* the turn before any stage has run: response is None
Start(text, pending, ctx) ==
    [voice |-> None, pending |-> pending, active_app |-> ctx.active_app,
     active_profile |-> ctx.active_profile, response |-> None, calls |-> <<>>,
     stages |-> <<>>, cmd_result |-> NOT_CALLED, groq |-> None]

\* variant: the refusal test is applied before the confirmation test
ConfirmationNegativeFirst(text, o) ==
    IF o.response = None /\ o.pending # None
    THEN LET done == IF _is_negative_confirmation(text)
                     THEN [pending |-> None, response |-> CancelMessage, calls |-> <<>>]
                     ELSE IF _is_positive_confirmation(text)
                     THEN _execute_pending_system_action(o.pending)
                     ELSE [pending |-> o.pending, response |-> RepromptMessage(o.pending),
                           calls |-> <<>>]
         IN [o EXCEPT !.pending = done.pending, !.response = done.response,
                      !.calls = o.calls \o done.calls,
                      !.stages = Append(o.stages, Stage("confirmation", TRUE))]
    ELSE o

\* variant: a power phrase heard while an action is pending takes the pending slot over
ConfirmationReplacing(text, o) ==
    IF o.response = None /\ o.pending # None
    THEN LET named == IF ContainsAny(Lower(text), {"shutdown", "shut down"}) THEN "shutdown"
                      ELSE IF ContainsAny(Lower(text), {"restart", "reboot"}) THEN "restart"
                      ELSE IF Contains(Lower(text), "sleep") THEN "sleep"
                      ELSE o.pending
             done == IF _is_positive_confirmation(text)
                     THEN _execute_pending_system_action(o.pending)
                     ELSE IF _is_negative_confirmation(text)
                     THEN [pending |-> None, response |-> CancelMessage, calls |-> <<>>]
                     ELSE [pending |-> named, response |-> RepromptMessage(named),
                           calls |-> <<>>]
         IN [o EXCEPT !.pending = done.pending, !.response = done.response,
                      !.calls = o.calls \o done.calls,
                      !.stages = Append(o.stages, Stage("confirmation", TRUE))]
    ELSE o

\* variant: anything that is not a refusal runs the pending action
ConfirmationUngated(text, o) ==
    IF o.response = None /\ o.pending # None
    THEN LET done == IF ~_is_negative_confirmation(text)
                     THEN _execute_pending_system_action(o.pending)
                     ELSE [pending |-> None, response |-> CancelMessage, calls |-> <<>>]
         IN [o EXCEPT !.pending = done.pending, !.response = done.response,
                      !.calls = o.calls \o done.calls,
                      !.stages = Append(o.stages, Stage("confirmation", TRUE))]
    ELSE o

\* step 1: a pending system action takes the utterance as its confirmation
Confirmation(text, o) ==
    IF o.response = None /\ o.pending # None
    THEN LET done == IF _is_positive_confirmation(text)
                     THEN _execute_pending_system_action(o.pending)
                     ELSE IF _is_negative_confirmation(text)
                     THEN [pending |-> None, response |-> CancelMessage, calls |-> <<>>]
                     ELSE [pending |-> o.pending, response |-> RepromptMessage(o.pending),
                           calls |-> <<>>]
         IN [o EXCEPT !.pending = done.pending, !.response = done.response,
                      !.calls = o.calls \o done.calls,
                      !.stages = Append(o.stages, Stage("confirmation", TRUE))]
    ELSE o

\* variant: the pending action is set from a power word in the utterance, whatever the
\* router answered
RouterResultKeyword(text, o, r) ==
    LET routed == [o EXCEPT !.cmd_result = r.result, !.calls = o.calls \o r.calls,
                            !.active_app = r.active_app, !.active_profile = r.active_profile]
        kind == IF ContainsAny(Lower(text), {"shutdown", "shut down"}) THEN "shutdown"
                ELSE IF ContainsAny(Lower(text), {"restart", "reboot"}) THEN "restart"
                ELSE IF Contains(Lower(text), "sleep") THEN "sleep"
                ELSE None
    IN  IF kind # None
        THEN [routed EXCEPT !.pending = kind,
                            !.response = ConfirmationPrompt(kind),
                            !.stages = Append(o.stages, Stage("router", TRUE))]
        ELSE IF r.result # None
        THEN [routed EXCEPT !.response = Acknowledge(Lower(text), r.result),
                            !.stages = Append(o.stages, Stage("router", TRUE))]
        ELSE [routed EXCEPT !.stages = Append(o.stages, Stage("router", FALSE))]

\* step 2: the local command handler; r is one outcome of process_command
RouterResult(text, o, r) ==
    LET routed == [o EXCEPT !.cmd_result = r.result, !.calls = o.calls \o r.calls,
                            !.active_app = r.active_app, !.active_profile = r.active_profile]
    IN  IF SentinelKind(r.result) # None
        THEN [routed EXCEPT !.pending = SentinelKind(r.result),
                            !.response = ConfirmationPrompt(SentinelKind(r.result)),
                            !.stages = Append(o.stages, Stage("router", TRUE))]
        ELSE IF r.result # None
        THEN [routed EXCEPT !.response = Acknowledge(Lower(text), r.result),
                            !.stages = Append(o.stages, Stage("router", TRUE))]
        ELSE [routed EXCEPT !.stages = Append(o.stages, Stage("router", FALSE))]

\* variant: the router runs whether or not the turn already has its response
RouterUnguarded(text, o) ==
    {RouterResult(text, o, r) :
        r \in process_command(text, Ctx(o.active_app, o.active_profile))}

Router(text, o) ==
    IF o.response = None
    THEN {RouterResult(text, o, r) :
            r \in process_command(text, Ctx(o.active_app, o.active_profile))}
    ELSE {o}

\* variant: the search heuristic does not look at whether a response already exists
SearchHeuristicUnguarded(text, o) ==
    IF LooksLikeSearch(text) /\ HeuristicQuery(text) # ""
    THEN [o EXCEPT !.response = "Opening Google search for: " \o HeuristicQuery(text),
                   !.calls = o.calls \o <<Call("search_google", HeuristicQuery(text))>>,
                   !.stages = Append(o.stages, Stage("search_heuristic", TRUE))]
    ELSE [o EXCEPT !.stages = Append(o.stages, Stage("search_heuristic", FALSE))]

\* step 3: an utterance that looks like a query is handed to Google
SearchHeuristic(text, o) ==
    IF o.response = None
    THEN IF LooksLikeSearch(text) /\ HeuristicQuery(text) # ""
         THEN [o EXCEPT !.response = "Opening Google search for: " \o HeuristicQuery(text),
                        !.calls = o.calls \o <<Call("search_google", HeuristicQuery(text))>>,
                        !.stages = Append(o.stages, Stage("search_heuristic", TRUE))]
         ELSE [o EXCEPT !.stages = Append(o.stages, Stage("search_heuristic", FALSE))]
    ELSE o

\* step 4: the conversational fallback, which also types an authored reply into the window
Conversation(text, o) ==
    IF o.response = None
    THEN {[o EXCEPT !.response = c.reply,
                    !.groq = IF c.ok THEN "ok" ELSE "failed",
                    !.calls = o.calls \o <<Call("chat_as_atlas", text)>>
                        \o (IF ContainsAny(Lower(text), AuthoringVerbs)
                            THEN <<Call("type_text_in_active_window", c.reply)>>
                            ELSE <<>>),
                    !.stages = Append(o.stages, Stage("conversation", TRUE))]
          : c \in chat_as_atlas}
    ELSE {o}

\* handle_recognized_text for a non-empty text: the set of turns the environment allows
handle_recognized_text(text, pending, ctx) ==
    IF IsMuteUtterance(text) \/ IsUnmuteUtterance(text)
    THEN {VoiceControl(text, pending, ctx)}
    ELSE UNION {Conversation(text, SearchHeuristic(text, routed)) :
                    routed \in Router(text, Confirmation(text, Start(text, pending, ctx)))}

(***************************************************************************)
(* Recognized utterances fed to the assistant, and the state machine.      *)
(***************************************************************************)

Utterances == {
    "shutdown", "shut down", "restart", "reboot", "sleep", "sleep mode",
    "yes", "no", "go ahead", "cancel", "don't", "do not proceed",
    "okay stop", "stop", "speak", "chup ho jao", "maybe later",
    "open chrome", "open notepad", "open excel", "close chrome", "close notepad", "close it",
    "open profile alisha", "chrome profile work", "open chrome with work profile",
    "save this", "what time is it", "search for best pizza places", "search weather today",
    "search this on chrome", "open whatsapp",
    "search for time zones", "search google for tla", "search google tla",
    "search for the news", "search for cats on youtube",
    "restart notepad", "hello", "what is tla", "what is", "write a poem" }

ProfileValues == {None, "Alisha", "Work"}
PendingValues == PowerKinds \cup {None}

\* handle_recognized_text tabulated over the utterances and the confirmation / session state
TurnTable ==
    [text \in Utterances, pending \in PendingValues, app \in AppTags, profile \in ProfileValues |->
        handle_recognized_text(text, pending, Ctx(app, profile))]

Turn(text, pending, app, profile) ==
    IF text \in Utterances /\ pending \in PendingValues /\ app \in AppTags
            /\ profile \in ProfileValues
    THEN TurnTable[text, pending, app, profile]
    ELSE handle_recognized_text(text, pending, Ctx(app, profile))

MaxTurns == 2
HistoryLimit == 20

Entry(role, text) == [role |-> role, text |-> text]

\* history[-n:]
LastN(history, n) ==
    IF Len(history) > n THEN SubSeq(history, Len(history) - n + 1, Len(history)) ELSE history

\* str.capitalize()
Capitalize(s) ==
    IF s = "" THEN "" ELSE ToUpper(SubSeq(s, 1, 1)) \o Lower(SubSeq(s, 2, Len(s)))

\* the status text safe_update_status(raw_status) stores
safe_update_status(raw_status) ==
    IF StartsWith(raw_status, "error:")
    THEN "Error: " \o SubSeq(raw_status, 7, Len(raw_status))
    ELSE Capitalize(raw_status)

\* engine.stop(): the playback in progress is cut off, its workers fall out of runAndWait()
Stopped(threads) ==
    [i \in DOMAIN threads |->
        IF threads[i].pc = "speaking" THEN [threads[i] EXCEPT !.pc = "stopped"] ELSE threads[i]]

\* the request chat_as_atlas builds: system prompt, history[-10:], the user message
HistoryTail == 10
system_prompt == "You are Atlas, an AI desktop assistant for Windows. ..."

Messages(history, user_message) ==
    <<Entry("system", system_prompt)>> \o LastN(history, HistoryTail)
        \o <<Entry("user", user_message)>>

Init ==
    /\ pending_system_action = None
    /\ active_app = None
    /\ active_profile = None
    /\ muted = FALSE
    /\ conversation_history = <<>>
    /\ groq_history = <<>>
    /\ groq_messages = <<>>
    /\ last_command = ""
    /\ last_response = ""
    /\ spoken = None
    /\ calls = <<>>
    /\ stages = <<>>
    /\ cmd_result = NOT_CALLED
    /\ turn_pending = None
    /\ turns = 0
    /\ listening = FALSE
    /\ status = "Ready"
    /\ is_listening = FALSE
    /\ audio_threads = 0
    /\ recognized_text_queue = <<>>
    /\ status_queue = <<>>
    /\ heard = <<>>
    /\ speech_threads = <<>>
    /\ is_speaking = FALSE
    /\ drain_pc = "idle"
    /\ drain_owed = <<>>

\* handle_recognized_text(text) run on the main thread, start to end
Handled(text) ==
    /\ text # ""
    /\ \E o \in Turn(text, pending_system_action, active_app, active_profile) :
        /\ last_command' = text
        /\ turn_pending' = pending_system_action
        /\ pending_system_action' = o.pending
        /\ active_app' = o.active_app
        /\ active_profile' = o.active_profile
        /\ muted' = IF o.voice = "mute" THEN TRUE ELSE IF o.voice = "unmute" THEN FALSE ELSE muted
        /\ conversation_history' =
                IF o.voice # None
                THEN Append(conversation_history, Entry("assistant", o.response))
                ELSE conversation_history
                        \o <<Entry("user", text), Entry("assistant", o.response)>>
        /\ groq_history' =
                IF o.groq = "ok"
                THEN LastN(groq_history \o <<Entry("user", text), Entry("assistant", o.response)>>,
                           HistoryLimit)
                ELSE groq_history
        /\ groq_messages' = IF o.groq # None THEN Messages(groq_history, text) ELSE <<>>
        /\ last_response' = o.response
        /\ spoken' = IF o.voice = "mute" \/ muted' \/ o.response = "" THEN None ELSE o.response
        /\ speech_threads' =
                IF o.voice = "mute" THEN Stopped(speech_threads)
                ELSE IF spoken' # None
                THEN Append(speech_threads, [text |-> spoken', pc |-> "spawned"])
                ELSE speech_threads
        /\ is_speaking' = IF o.voice = "mute" THEN FALSE ELSE is_speaking
        /\ status' = IF o.voice # None \/ ~listening
                     THEN safe_update_status("ready")
                     ELSE safe_update_status("listening")
        /\ calls' = o.calls
        /\ stages' = o.stages
        /\ cmd_result' = o.cmd_result
        /\ turns' = turns + 1
    /\ UNCHANGED <<listening, is_listening, audio_threads, heard, drain_pc, drain_owed>>

\* one recognized utterance handled, out of the full vocabulary
HandleRecognizedText(text) ==
    /\ turns < MaxTurns
    /\ Handled(text)
    /\ UNCHANGED <<recognized_text_queue, status_queue>>

\* the "Clear History" button
ClearHistory ==
    /\ conversation_history # <<>>
    /\ conversation_history' = <<>>
    /\ last_response' = ""
    /\ groq_history' = <<>>
    /\ UNCHANGED <<pending_system_action, active_app, active_profile, muted, last_command,
                   groq_messages, spoken, calls, stages, cmd_result, turn_pending, turns, listening, status,
                   is_listening, audio_threads, recognized_text_queue, status_queue, heard,
                   speech_threads, is_speaking, drain_pc, drain_owed>>

Next ==
    \/ \E text \in Utterances : HandleRecognizedText(text)
    \/ ClearHistory

Spec == Init /\ [][Next]_vars

(***************************************************************************)
(* The router on its own: process_command called on one utterance after    *)
(* another, the session context carried from call to call.                 *)
(***************************************************************************)
RouterUtterances == {
    "open chrome", "open notepad", "open word", "open excel", "open recycle bin",
    "close chrome", "close notepad", "close it", "close this", "close window",
    "open chrome with work", "chrome profile work", "open profile alisha", "profile alisha",
    "chrome profile",
    "scroll down", "page down", "scroll up", "page up",
    "click that", "click", "left click", "right click", "right-click",
    "new tab", "open new tab", "next tab", "previous tab", "close tab", "close this tab",
    "save file with name report on desktop", "save file with name report in documents",
    "save this",
    "insert table for 10 people", "ten random people",
    "open whatsapp", "open chatgpt",
    "search this on chrome", "what time is it", "hello",
    "delete everything", "delete all", "delete this", "please delete all of it",
    "search youtube for cats", "search youtube for python lessons",
    "search youtube for on", "search youtube for piano music",
    "search for a for loop in python", "search for the news about a cat please",
    "search for the a team" }

\* command_handler.process_command(text)
ProcessCommand(text) ==
    /\ turns < MaxTurns
    /\ \E o \in process_command(text, Ctx(active_app, active_profile)) :
        /\ last_command' = text
        /\ cmd_result' = o.result
        /\ calls' = o.calls
        /\ active_app' = o.active_app
        /\ active_profile' = o.active_profile
        /\ turns' = turns + 1
    /\ UNCHANGED <<pending_system_action, muted, conversation_history, groq_history,
                   groq_messages, last_response, spoken, stages, turn_pending, listening, status,
                   is_listening, audio_threads, recognized_text_queue, status_queue, heard,
                   speech_threads, is_speaking, drain_pc, drain_owed>>

RouterSpec == Init /\ [][\E text \in RouterUtterances : ProcessCommand(text)]_vars

(***************************************************************************)
(* The session around the handler: the Start/Stop buttons, the recognition *)
(* thread, the queues the main thread polls, and the speak() workers.      *)
(***************************************************************************)
MaxAudioThreads == 2
MaxHeard == 1

SessionUtterances == {"hello", "stop", "speak", "open chrome"}

\* what handle_recognized_text reads and writes, apart from the status and the speech engine
session_state ==
    <<pending_system_action, active_app, active_profile, muted, conversation_history,
      groq_history, groq_messages, last_command, last_response, spoken, calls, stages, cmd_result,
      turn_pending, turns>>

\* the "Start" button
StartListening ==
    /\ ~listening
    /\ audio_threads < MaxAudioThreads
    /\ listening' = TRUE
    /\ status' = safe_update_status("initializing")
    /\ audio_threads' = audio_threads + 1
    /\ UNCHANGED <<session_state, is_listening, recognized_text_queue, status_queue, heard,
                   speech_threads, is_speaking, drain_pc, drain_owed>>

\* the "Stop" button
StopListening ==
    /\ listening
    /\ listening' = FALSE
    /\ is_listening' = FALSE
    /\ status' = safe_update_status("stopped")
    /\ UNCHANGED <<session_state, audio_threads, recognized_text_queue, status_queue, heard,
                   speech_threads, is_speaking, drain_pc, drain_owed>>

\* a recognition thread that also logs into the conversation history
ListenContinuouslyWritingHistory ==
    /\ audio_threads > 0
    /\ audio_threads' = audio_threads - 1
    /\ is_listening' = TRUE
    /\ conversation_history' = Append(conversation_history, Entry("assistant", "listening"))
    /\ UNCHANGED <<pending_system_action, active_app, active_profile, muted, groq_history,
                   groq_messages, last_command, last_response, spoken, calls, stages, cmd_result,
                   turn_pending, turns, listening, status, recognized_text_queue,
                   status_queue, heard, speech_threads, is_speaking, drain_pc, drain_owed>>

\* the recognition thread: start_recognition() runs listen_continuously(on_text, on_status),
\* which raises the flag, defines audio_capture_thread without calling it, and returns
ListenContinuously ==
    /\ audio_threads > 0
    /\ audio_threads' = audio_threads - 1
    /\ is_listening' = TRUE
    /\ UNCHANGED <<session_state, listening, status, recognized_text_queue, status_queue, heard,
                   speech_threads, is_speaking, drain_pc, drain_owed>>

\* the user says something into the microphone while the assistant is listening
Utter(utterance) ==
    /\ listening
    /\ Len(heard) < MaxHeard
    /\ heard' = Append(heard, utterance)
    /\ UNCHANGED <<session_state, listening, status, is_listening, audio_threads,
                   recognized_text_queue, status_queue, speech_threads, is_speaking, drain_pc, drain_owed>>

\* one poll of the main thread: every queued status is applied, then the recognized text at
\* the head of the queue is handled (the texts behind it by the polls that follow)
DrainQueues ==
    /\ status_queue' = <<>>
    /\ IF recognized_text_queue = <<>>
       THEN /\ status' = IF status_queue = <<>> THEN status
                         ELSE safe_update_status(status_queue[Len(status_queue)])
            /\ UNCHANGED <<session_state, listening, is_listening, audio_threads,
                           recognized_text_queue, heard, speech_threads, is_speaking, drain_pc, drain_owed>>
       ELSE /\ Handled(Head(recognized_text_queue))
            /\ recognized_text_queue' = Tail(recognized_text_queue)

\* a speak() worker gets to run: is_speaking = True, engine.say(text), runAndWait()
SpeakThreadStart(i) ==
    /\ i \in DOMAIN speech_threads
    /\ speech_threads[i].pc = "spawned"
    /\ speech_threads' = [speech_threads EXCEPT ![i].pc = "speaking"]
    /\ is_speaking' = TRUE
    /\ UNCHANGED <<session_state, listening, status, is_listening, audio_threads,
                   recognized_text_queue, status_queue, heard, drain_pc, drain_owed>>

\* runAndWait() returned in a worker: finally is_speaking = False, and the thread ends
SpeakThreadEnd(i) ==
    /\ i \in DOMAIN speech_threads
    /\ speech_threads[i].pc \in {"speaking", "stopped"}
    /\ speech_threads' = [k \in 1..(Len(speech_threads) - 1) |->
                            IF k < i THEN speech_threads[k] ELSE speech_threads[k + 1]]
    /\ is_speaking' = FALSE
    /\ UNCHANGED <<session_state, listening, status, is_listening, audio_threads,
                   recognized_text_queue, status_queue, heard, drain_pc, drain_owed>>

SessionNext ==
    \/ \E text \in SessionUtterances : HandleRecognizedText(text)
    \/ StartListening
    \/ StopListening
    \/ ListenContinuously
    \/ Utter("hello")
    \/ DrainQueues
    \/ \E i \in 1..MaxTurns : SpeakThreadStart(i)
    \/ \E i \in 1..MaxTurns : SpeakThreadEnd(i)

\* a started recognition thread gets to run, and the page keeps polling the queues
SessionSpec ==
    /\ Init /\ [][SessionNext]_vars
    /\ WF_vars(ListenContinuously)
    /\ WF_vars(DrainQueues)

\* long conversations: one small-talk utterance, handled over and over
(***************************************************************************)
(* The two queues between the audio thread and the main thread: the        *)
(* callbacks start_listening hands to the recognizer put items, the main   *)
(* thread's _drain_queues takes them, one loop iteration per step.         *)
(***************************************************************************)

MaxQueued == 2

QueueUtterances == {"hello", "open chrome"}
QueuedStatuses == {"listening", "processing"}

\* variant: the newest item leaves the queue first
get_nowait_newest(queue) ==
    [item |-> queue[Len(queue)], rest |-> SubSeq(queue, 1, Len(queue) - 1)]

\* queue.Queue.get_nowait(): the oldest item and the queue without it
get_nowait(queue) == [item |-> Head(queue), rest |-> Tail(queue)]

\* on_text(recognized_text), called inside the audio thread
OnText(recognized_text) ==
    /\ Len(heard) < MaxQueued
    /\ heard' = Append(heard, recognized_text)
    /\ recognized_text_queue' = Append(recognized_text_queue, recognized_text)
    /\ UNCHANGED <<session_state, listening, status, is_listening, audio_threads, status_queue,
                   speech_threads, is_speaking, drain_pc, drain_owed>>

\* on_status(raw_status), called inside the audio thread
OnStatus(raw_status) ==
    /\ Len(status_queue) < MaxQueued
    /\ status_queue' = Append(status_queue, raw_status)
    /\ UNCHANGED <<session_state, listening, status, is_listening, audio_threads,
                   recognized_text_queue, heard, speech_threads, is_speaking, drain_pc,
                   drain_owed>>

\* main() calls _drain_queues()
DrainBegin ==
    /\ drain_pc = "idle"
    /\ drain_pc' = "statuses"
    /\ drain_owed' = status_queue
    /\ UNCHANGED <<session_state, listening, status, is_listening, audio_threads,
                   recognized_text_queue, status_queue, heard, speech_threads, is_speaking>>

\* while not status_queue.empty(): safe_update_status(status_queue.get_nowait())
DrainStatus ==
    /\ drain_pc = "statuses"
    /\ status_queue # <<>>
    /\ LET got == get_nowait(status_queue)
       IN /\ status_queue' = got.rest
          /\ status' = safe_update_status(got.item)
          /\ drain_owed' = IF drain_owed # <<>> /\ Head(drain_owed) = got.item
                           THEN Tail(drain_owed) ELSE drain_owed
    /\ UNCHANGED <<session_state, listening, is_listening, audio_threads,
                   recognized_text_queue, heard, speech_threads, is_speaking, drain_pc>>

\* the status loop finds its queue empty and the text loop begins
DrainStatusEnd ==
    /\ drain_pc = "statuses"
    /\ status_queue = <<>>
    /\ drain_pc' = "texts"
    /\ UNCHANGED <<session_state, listening, status, is_listening, audio_threads,
                   recognized_text_queue, status_queue, heard, speech_threads, is_speaking,
                   drain_owed>>

\* while not recognized_text_queue.empty(): handle_recognized_text(queue.get_nowait())
DrainText ==
    /\ drain_pc = "texts"
    /\ recognized_text_queue # <<>>
    /\ turns < MaxTurns
    /\ LET got == get_nowait(recognized_text_queue)
       IN /\ Handled(got.item)
          /\ recognized_text_queue' = got.rest
    /\ UNCHANGED status_queue

\* the text loop finds its queue empty and _drain_queues returns
DrainEnd ==
    /\ drain_pc = "texts"
    /\ recognized_text_queue = <<>>
    /\ drain_pc' = "idle"
    /\ drain_owed' = <<>>
    /\ UNCHANGED <<session_state, listening, status, is_listening, audio_threads,
                   recognized_text_queue, status_queue, heard, speech_threads, is_speaking>>

QueueNext ==
    \/ \E recognized_text \in QueueUtterances : OnText(recognized_text)
    \/ \E raw_status \in QueuedStatuses : OnStatus(raw_status)
    \/ DrainBegin
    \/ DrainStatus
    \/ DrainStatusEnd
    \/ DrainText
    \/ DrainEnd

QueueSpec == Init /\ [][QueueNext]_vars

(***************************************************************************)
(* GroqClient on its own: chat, chat_as_atlas and reset_conversation       *)
(* called in any order, every request free to fail.                        *)
(***************************************************************************)

MaxGroqCalls == 11

ChatError == "Sorry, I encountered an error while processing your request: E"

\* GroqClient.chat(user_message): the user entry is appended before the request is made
Chat(user_message) ==
    /\ turns < MaxGroqCalls
    /\ turns' = turns + 1
    /\ last_command' = user_message
    /\ \E ok \in BOOLEAN :
        /\ groq_messages' = Append(groq_history, Entry("user", user_message))
        /\ groq_history' =
                IF ok
                THEN LastN(groq_history \o <<Entry("user", user_message),
                                             Entry("assistant", GroqReply)>>, HistoryLimit)
                ELSE Append(groq_history, Entry("user", user_message))
        /\ last_response' = IF ok THEN GroqReply ELSE ChatError
    /\ UNCHANGED <<pending_system_action, active_app, active_profile, muted,
                   conversation_history, spoken, calls, stages, cmd_result, turn_pending,
                   listening, status, is_listening, audio_threads, recognized_text_queue,
                   status_queue, heard, speech_threads, is_speaking, drain_pc, drain_owed>>

\* GroqClient.chat_as_atlas(user_message): both entries are appended after the reply arrived
ChatAsAtlas(user_message) ==
    /\ turns < MaxGroqCalls
    /\ turns' = turns + 1
    /\ last_command' = user_message
    /\ groq_messages' = Messages(groq_history, user_message)
    /\ \E c \in chat_as_atlas :
        /\ groq_history' =
                IF c.ok
                THEN LastN(groq_history \o <<Entry("user", user_message),
                                             Entry("assistant", c.reply)>>, HistoryLimit)
                ELSE groq_history
        /\ last_response' = c.reply
    /\ UNCHANGED <<pending_system_action, active_app, active_profile, muted,
                   conversation_history, spoken, calls, stages, cmd_result, turn_pending,
                   listening, status, is_listening, audio_threads, recognized_text_queue,
                   status_queue, heard, speech_threads, is_speaking, drain_pc, drain_owed>>

\* GroqClient.reset_conversation()
ResetConversation ==
    /\ groq_history # <<>>
    /\ groq_history' = <<>>
    /\ UNCHANGED <<pending_system_action, active_app, active_profile, muted,
                   conversation_history, groq_messages, last_command, last_response, spoken,
                   calls, stages, cmd_result, turn_pending, turns, listening, status,
                   is_listening, audio_threads, recognized_text_queue, status_queue, heard,
                   speech_threads, is_speaking, drain_pc, drain_owed>>

GroqNext ==
    \/ Chat("hello")
    \/ ChatAsAtlas("hello")
    \/ ResetConversation

GroqSpec == Init /\ [][GroqNext]_vars

MaxChatTurns == 11

HistorySpec ==
    Init /\ [][\/ /\ turns < MaxChatTurns
                    /\ Handled("hello")
                    /\ UNCHANGED <<recognized_text_queue, status_queue>>
                 \/ ClearHistory]_vars

TypeOK ==
    /\ pending_system_action \in PendingValues
    /\ active_app \in AppTags
    /\ active_profile \in ProfileValues
    /\ muted \in BOOLEAN
    /\ turns \in 0..MaxTurns

(***************************************************************************)
(* Properties of the confirmation gate, the session context and the        *)
(* per-utterance pipeline.  calls, stages, cmd_result, turn_pending and    *)
(* last_command describe the most recent turn; the response of that turn   *)
(* is last_response until the history is cleared.                          *)
(***************************************************************************)

\* C1: a power effector (shutdown_system, restart_system, sleep_system) is invoked only in a
\* turn that began with pending_system_action equal to that kind and whose utterance is a
\* positive confirmation; a turn in which process_command ran invokes no power effector.
C1_PowerOnlyOnPositiveConfirmation ==
    /\ \A k \in PowerKinds :
            (\E i \in DOMAIN calls : calls[i] = PowerCall(k)) =>
                /\ turn_pending = k
                /\ _is_positive_confirmation(last_command)
                /\ cmd_result = NOT_CALLED
    /\ cmd_result # NOT_CALLED => \A i \in DOMAIN calls : calls[i] \notin PowerCalls

C1_Witness ==
    /\ turn_pending = "restart"
    /\ _is_positive_confirmation(last_command)
    /\ calls = <<PowerCall("restart")>>

\* C2 as stated: from pending_system_action = kind, every positive confirmation invokes the
\* effector of that kind exactly once, resets the pending action to None and emits the
\* completion message; 'shutdown' while Idle calls no effector and leaves shutdown pending.
C2_EveryPositiveConfirmationExecutes ==
    /\ (turns > 0 /\ turn_pending \in PowerKinds /\ _is_positive_confirmation(last_command)) =>
            /\ calls = <<PowerCall(turn_pending)>>
            /\ pending_system_action = None
            /\ conversation_history # <<>> => last_response = CompletionMessage(turn_pending)
    /\ (turns > 0 /\ turn_pending = None /\ last_command = "shutdown") =>
            calls = <<>> /\ pending_system_action = "shutdown"

\* C2 amended: from pending_system_action = kind, a positive confirmation that holds no mute
\* or unmute keyword invokes the effector of that kind exactly once, resets the pending
\* action to None and emits the completion message; 'shutdown' while Idle calls no effector
\* and leaves shutdown pending, so 'shutdown' then 'yes' shuts down once and ends Idle.
C2_PositiveConfirmationExecutes ==
    /\ (/\ turns > 0
        /\ turn_pending \in PowerKinds
        /\ _is_positive_confirmation(last_command)
        /\ ~IsMuteUtterance(last_command)
        /\ ~IsUnmuteUtterance(last_command)) =>
            /\ calls = <<PowerCall(turn_pending)>>
            /\ pending_system_action = None
            /\ conversation_history # <<>> => last_response = CompletionMessage(turn_pending)
    /\ (turns > 0 /\ turn_pending = None /\ last_command = "shutdown") =>
            calls = <<>> /\ pending_system_action = "shutdown"

C2_Witness ==
    /\ Len(conversation_history) = 4
    /\ conversation_history[1] = Entry("user", "shutdown")
    /\ last_command = "yes"
    /\ turn_pending = "shutdown"
    /\ calls = <<PowerCall("shutdown")>>
    /\ pending_system_action = None
    /\ last_response = "Shutting down the system now."

\* C3: from Idle, a turn in which the router answers with a power-request sentinel had an
\* utterance holding the matching phrase, sets pending_system_action to the matching kind,
\* emits the confirmation prompt of that kind and invokes no effector; the six power phrases
\* themselves are answered with their sentinel.
C3_PowerPhraseAsksForConfirmation ==
    (turns > 0 /\ turn_pending = None) =>
        /\ cmd_result = SHUTDOWN_REQUEST =>
                /\ ContainsAny(last_command, {"shutdown", "shut down"})
                /\ pending_system_action = "shutdown"
        /\ cmd_result = RESTART_REQUEST =>
                /\ ContainsAny(last_command, {"restart", "reboot"})
                /\ pending_system_action = "restart"
        /\ cmd_result = SLEEP_REQUEST =>
                /\ ContainsAny(last_command, {"sleep", "sleep mode"})
                /\ pending_system_action = "sleep"
        /\ cmd_result \in {SHUTDOWN_REQUEST, RESTART_REQUEST, SLEEP_REQUEST} =>
                /\ calls = <<>>
                /\ conversation_history # <<>> =>
                        last_response = ConfirmationPrompt(pending_system_action)
        /\ last_command \in {"shutdown", "shut down"} => cmd_result = SHUTDOWN_REQUEST
        /\ last_command \in {"restart", "reboot"} => cmd_result = RESTART_REQUEST
        /\ last_command \in {"sleep", "sleep mode"} => cmd_result = SLEEP_REQUEST

C3_Witness ==
    /\ turn_pending = None
    /\ last_command = "sleep mode"
    /\ cmd_result = SLEEP_REQUEST
    /\ pending_system_action = "sleep"
    /\ calls = <<>>
    /\ last_response = ConfirmationPrompt("sleep")

\* C4 as stated: from pending_system_action = kind, every utterance holding one of no, cancel,
\* abort, stop, don't, do not, nope returns to Idle, emits the cancellation message and
\* invokes no power effector.
C4_EveryNegativeCancels ==
    (/\ turns > 0
     /\ turn_pending \in PowerKinds
     /\ ContainsAny(last_command, {"no", "cancel", "abort", "stop", "don't", "do not", "nope"})) =>
        /\ pending_system_action = None
        /\ \A i \in DOMAIN calls : calls[i] \notin PowerCalls
        /\ conversation_history # <<>> => last_response = CancelMessage

\* C4 amended: from pending_system_action = kind, an utterance holding one of no, cancel,
\* abort, stop, don't, do not, nope, and holding no positive keyword and no mute or unmute
\* keyword, returns to Idle, emits the cancellation message and invokes no effector.
C4_NegativeCancels ==
    (/\ turns > 0
     /\ turn_pending \in PowerKinds
     /\ ContainsAny(last_command, {"no", "cancel", "abort", "stop", "don't", "do not", "nope"})
     /\ ~_is_positive_confirmation(last_command)
     /\ ~IsMuteUtterance(last_command)
     /\ ~IsUnmuteUtterance(last_command)) =>
        /\ pending_system_action = None
        /\ calls = <<>>
        /\ conversation_history # <<>> => last_response = CancelMessage

C4_Witness ==
    /\ turn_pending = "restart"
    /\ last_command = "don't"
    /\ pending_system_action = None
    /\ calls = <<>>
    /\ last_response = CancelMessage

\* C5 as stated: from pending_system_action = k, every utterance with neither a positive nor
\* a negative keyword leaves k pending, invokes no effector and emits a re-prompt naming k.
C5_EveryOtherUtteranceReprompts ==
    (/\ turns > 0
     /\ turn_pending \in PowerKinds
     /\ ~_is_positive_confirmation(last_command)
     /\ ~_is_negative_confirmation(last_command)) =>
        /\ pending_system_action = turn_pending
        /\ calls = <<>>
        /\ conversation_history # <<>> =>
                Contains(last_response, "You requested a " \o turn_pending \o " action.")

\* C5 amended: from pending_system_action = k, an utterance with neither a positive nor a
\* negative keyword and with no mute or unmute keyword leaves k pending, invokes no effector
\* and emits a re-prompt naming k.
C5_OtherUtteranceReprompts ==
    (/\ turns > 0
     /\ turn_pending \in PowerKinds
     /\ ~_is_positive_confirmation(last_command)
     /\ ~_is_negative_confirmation(last_command)
     /\ ~IsMuteUtterance(last_command)
     /\ ~IsUnmuteUtterance(last_command)) =>
        /\ pending_system_action = turn_pending
        /\ calls = <<>>
        /\ conversation_history # <<>> =>
                Contains(last_response, "You requested a " \o turn_pending \o " action.")

C5_Witness ==
    /\ turn_pending = "sleep"
    /\ last_command = "maybe later"
    /\ pending_system_action = "sleep"
    /\ calls = <<>>
    /\ Contains(last_response, "You requested a sleep action.")

\* C6: pending_system_action goes from None to a kind only in a turn in which process_command
\* returned one of the three SYSTEM_*_REQUEST sentinels; any other utterance leaves Idle Idle.
C6_PendingOnlyFromSentinel ==
    [][(pending_system_action = None /\ pending_system_action' # None) =>
            /\ turns' = turns + 1
            /\ cmd_result' \in {SHUTDOWN_REQUEST, RESTART_REQUEST, SLEEP_REQUEST}]_vars

C6_Witness ==
    /\ turn_pending = None
    /\ pending_system_action = "restart"
    /\ cmd_result = RESTART_REQUEST

\* C7 as stated: the utterance 'no' while Idle is a no-op: no effector of any kind is invoked
\* and the pending action and the session context are unchanged.
C7_NoWhileIdleIsNoOp ==
    [][(turns' = turns + 1 /\ last_command' = "no" /\ pending_system_action = None) =>
            /\ calls' = <<>>
            /\ UNCHANGED <<pending_system_action, active_app, active_profile>>]_vars

\* C8: after every router operation active_profile is None whenever active_app is not chrome.
C8_ProfileOnlyWithChrome ==
    active_app # "chrome" => active_profile = None

C8_Witness ==
    /\ Len(conversation_history) = 4
    /\ conversation_history[1] = Entry("user", "open profile alisha")
    /\ Contains(conversation_history[2].text, "Opening Chrome with profile Alisha")
    /\ last_command = "open notepad"
    /\ active_app = "notepad"
    /\ active_profile = None

\* C9 as stated: after 'open chrome' is routed active_app is chrome; 'save this' is routed to
\* save-in-active-editor and not to the Excel/Word data fill.
C9_OpenChromeAlwaysSetsChrome ==
    /\ (turns > 0 /\ turn_pending = None /\ last_command = "open chrome") =>
            active_app = "chrome"
    /\ (turns > 0 /\ turn_pending = None /\ last_command = "save this") =>
            calls = <<Call("save_in_active_window", "")>>

\* C9 amended: after 'open chrome' is routed and the Chrome executable was found and started
\* (the router answers "Opening Google Chrome"), active_app is chrome; 'save this' is routed
\* to save-in-active-editor and not to the Excel/Word data fill.
C9_LaunchedChromeSetsChrome ==
    /\ (/\ turns > 0
        /\ turn_pending = None
        /\ last_command = "open chrome"
        /\ cmd_result = "Opening Google Chrome") =>
            active_app = "chrome"
    /\ (turns > 0 /\ turn_pending = None /\ last_command = "save this") =>
            calls = <<Call("save_in_active_window", "")>>

C9_Witness ==
    /\ Len(conversation_history) = 4
    /\ conversation_history[1] = Entry("user", "open chrome")
    /\ last_command = "save this"
    /\ active_app = "chrome"
    /\ calls = <<Call("save_in_active_window", "")>>

\* C10: apart from a turn taken by the mute / unmute intercept, the stages of a turn run in
\* the order confirmation, router, search heuristic, conversation, starting at confirmation
\* exactly when an action was pending and never skipping one; every stage but the last left
\* the response unresolved and the last one resolved it; the conversational fallback is
\* called only when nothing was pending, the router returned None and the search heuristic
\* did not resolve.
C10_StagesShortCircuitInOrder ==
    turns > 0 =>
        LET order == <<"confirmation", "router", "search_heuristic", "conversation">>
            at(i) == CHOOSE n \in 1..4 : order[n] = stages[i].stage
            ran(name) == \E i \in DOMAIN stages : stages[i].stage = name
            chatted == \E i \in DOMAIN calls : calls[i] = Call("chat_as_atlas", last_command)
        IN  /\ Len(stages) >= 1
            /\ \A i \in DOMAIN stages : stages[i].resolved = (i = Len(stages))
            /\ stages # <<Stage("voice_control", TRUE)>> =>
                    /\ \A i \in DOMAIN stages : \E n \in 1..4 : order[n] = stages[i].stage
                    /\ at(1) = IF turn_pending # None THEN 1 ELSE 2
                    /\ \A i \in 1..(Len(stages) - 1) : at(i + 1) = at(i) + 1
            /\ ran("router") = (cmd_result # NOT_CALLED)
            /\ ran("conversation") = chatted
            /\ ran("conversation") =>
                    /\ turn_pending = None
                    /\ cmd_result = None
                    /\ stages = <<Stage("router", FALSE), Stage("search_heuristic", FALSE),
                                  Stage("conversation", TRUE)>>

C10_Witness ==
    /\ last_command = "hello"
    /\ turn_pending = None
    /\ cmd_result = None
    /\ stages = <<Stage("router", FALSE), Stage("search_heuristic", FALSE),
                  Stage("conversation", TRUE)>>
    /\ calls = <<Call("chat_as_atlas", "hello")>>

\* C11: a turn that starts with a pending system action and is not taken by the mute / unmute
\* intercept is resolved by the confirmation step alone: process_command is not invoked, no
\* effector other than the power effector runs, and active_app and active_profile are
\* unchanged, whatever the utterance says.
C11_PendingTurnIsConfirmationOnly ==
    [][(/\ turns' = turns + 1
        /\ pending_system_action # None
        /\ ~IsMuteUtterance(last_command')
        /\ ~IsUnmuteUtterance(last_command')) =>
            /\ cmd_result' = NOT_CALLED
            /\ \A i \in DOMAIN calls' : calls'[i] \in PowerCalls
            /\ stages' = <<Stage("confirmation", TRUE)>>
            /\ UNCHANGED <<active_app, active_profile>>]_vars

C11_Witness ==
    /\ turn_pending = "shutdown"
    /\ last_command = "open chrome"
    /\ cmd_result = NOT_CALLED
    /\ calls = <<>>
    /\ active_app = None
    /\ pending_system_action = "shutdown"

\* C12: an utterance holding a mute keyword ('stop', 'chup ho jao') or an unmute keyword
\* ('speak', 'bolo') is handled by the voice-control intercept alone: neither the confirmation
\* step, the router nor a fallback runs, no effector is called, and pending_system_action,
\* active_app and active_profile are unchanged.
C12_VoiceControlBypassesEverything ==
    [][(/\ turns' = turns + 1
        /\ ContainsAny(last_command', {"stop", "chup ho jao", "speak", "bolo"})) =>
            /\ stages' = <<Stage("voice_control", TRUE)>>
            /\ cmd_result' = NOT_CALLED
            /\ calls' = <<>>
            /\ last_response' \in {MuteMessage, UnmuteMessage}
            /\ UNCHANGED <<pending_system_action, active_app, active_profile>>]_vars

C12_Witness ==
    /\ turn_pending = "restart"
    /\ last_command = "okay stop"
    /\ pending_system_action = "restart"
    /\ stages = <<Stage("voice_control", TRUE)>>
    /\ calls = <<>>
    /\ muted

\* C14: for every utterance holding a time-trigger phrase ('time', 'what time', 'current
\* time'), process_command returns the fixed time response and calls no search effector, even
\* if the utterance also holds 'search'.
C14_TimePhraseNeverSearches ==
    (/\ turns > 0
     /\ cmd_result # NOT_CALLED
     /\ ContainsAny(Lower(last_command), {"time", "what time", "current time"})) =>
        /\ cmd_result = "The current time is HH:MM"
        /\ calls = <<Call("get_time", "")>>
        /\ stages = <<Stage("router", TRUE)>>

C14_Witness ==
    /\ last_command = "search for time zones"
    /\ cmd_result = "The current time is HH:MM"
    /\ calls = <<Call("get_time", "")>>

\* C15 as stated: when the generic search rule fires, the query handed to search_google is the
\* text following the first matching pattern among 'search for', 'search google for',
\* 'search google' and a leading 'search ', tested in that order; 'search for best pizza
\* places' yields 'best pizza places' and 'search weather today' yields 'weather today'.
C15_QueryIsTextAfterPattern ==
    /\ (/\ turns > 0
        /\ stages = <<Stage("router", TRUE)>>
        /\ Len(calls) = 1
        /\ calls[1][1] = "search_google") =>
            LET t == Strip(Lower(last_command))
                after == IF Contains(t, "search for") THEN SplitFirstTail(t, "search for")
                         ELSE IF Contains(t, "search google for")
                         THEN SplitFirstTail(t, "search google for")
                         ELSE IF Contains(t, "search google")
                         THEN SplitFirstTail(t, "search google")
                         ELSE SplitFirstTail(t, "search")
            IN  calls[1][2] = Strip(after)
    /\ (turns > 0 /\ turn_pending = None /\ last_command = "search for best pizza places") =>
            /\ stages = <<Stage("router", TRUE)>>
            /\ calls = <<Call("search_google", "best pizza places")>>
    /\ (turns > 0 /\ turn_pending = None /\ last_command = "search weather today") =>
            /\ stages = <<Stage("router", TRUE)>>
            /\ calls = <<Call("search_google", "weather today")>>

\* C15 amended: when the generic search rule fires, the query handed to search_google is the
\* text following the first matching pattern among 'search for', 'search google for',
\* 'search google' and a leading 'search ', tested in that order, trimmed and with its
\* leading filler words (for, about, the, a, an, please) removed in one pass over that list;
\* 'search for best pizza places' yields 'best pizza places' and 'search weather today'
\* yields 'weather today'.
C15_QueryIsTextAfterPatternLessFillers ==
    /\ (/\ turns > 0
        /\ stages = <<Stage("router", TRUE)>>
        /\ Len(calls) = 1
        /\ calls[1][1] = "search_google") =>
            LET t == Strip(Lower(last_command))
                after == IF Contains(t, "search for") THEN SplitFirstTail(t, "search for")
                         ELSE IF Contains(t, "search google for")
                         THEN SplitFirstTail(t, "search google for")
                         ELSE IF Contains(t, "search google")
                         THEN SplitFirstTail(t, "search google")
                         ELSE SplitFirstTail(t, "search")
            IN  /\ Contains(t, "search for") \/ Contains(t, "search google")
                    \/ StartsWith(t, "search ")
                /\ calls[1][2] = StripFillers(Strip(after), 1)
    /\ (turns > 0 /\ turn_pending = None /\ last_command = "search for best pizza places") =>
            /\ stages = <<Stage("router", TRUE)>>
            /\ calls = <<Call("search_google", "best pizza places")>>
    /\ (turns > 0 /\ turn_pending = None /\ last_command = "search weather today") =>
            /\ stages = <<Stage("router", TRUE)>>
            /\ calls = <<Call("search_google", "weather today")>>

C15_Witness ==
    /\ turn_pending = None
    /\ last_command = "search google for tla"
    /\ stages = <<Stage("router", TRUE)>>
    /\ calls = <<Call("search_google", "tla")>>

\* C16 as stated: for every utterance holding 'search' together with a phrase of the exclusion
\* list, no Google search of an extracted query is performed in the turn; 'search this on
\* chrome' is routed to the selected-text browser search.
C16_ExcludedPhraseNeverGoogled ==
    (/\ turns > 0
     /\ cmd_result # NOT_CALLED
     /\ Contains(Lower(last_command), "search")
     /\ ContainsAny(Lower(last_command),
            {"search this on chrome", "search this in chrome", "search selected text",
             "search in chrome", "search in browser", "chrome search", "browser search",
             "search youtube", "youtube"})) =>
        /\ \A i \in DOMAIN calls : calls[i][1] # "search_google"
        /\ last_command = "search this on chrome" =>
                calls = <<Call("_search_selected_text_in_chrome", "")>>

\* C16 amended: for every utterance holding 'search' together with a phrase of the exclusion
\* list, the router's generic search rule does not fire: process_command performs no Google
\* search, and a Google search happens in the turn only through the pipeline's search
\* heuristic after the router returned None; 'search this on chrome' is routed to the
\* selected-text browser search.
C16_ExcludedPhraseNotGoogledByRouter ==
    (/\ turns > 0
     /\ cmd_result # NOT_CALLED
     /\ Contains(Lower(last_command), "search")
     /\ ContainsAny(Lower(last_command),
            {"search this on chrome", "search this in chrome", "search selected text",
             "search in chrome", "search in browser", "chrome search", "browser search",
             "search youtube", "youtube"})) =>
        /\ (\E i \in DOMAIN calls : calls[i][1] = "search_google") =>
                /\ cmd_result = None
                /\ stages = <<Stage("router", FALSE), Stage("search_heuristic", TRUE)>>
        /\ last_command = "search this on chrome" =>
                calls = <<Call("_search_selected_text_in_chrome", "")>>

C16_Witness ==
    /\ turn_pending = None
    /\ last_command = "search this on chrome"
    /\ calls = <<Call("_search_selected_text_in_chrome", "")>>
    /\ stages = <<Stage("router", TRUE)>>

\* C13 as stated: the conversation history of the session never holds more than 20 entries,
\* whatever the sequence of turns.
C13_HistoryNeverExceedsTwenty ==
    Len(conversation_history) <= 20

\* C17 as stated: once listening is started, every utterance that reaches the recognizer is
\* eventually put on the recognized-text queue by the recognition thread, and every queued
\* text is eventually taken off the queue and handled by the main thread.
C17_HeardIsEventuallyQueuedAndHandled ==
    /\ (heard # <<>>) ~> (recognized_text_queue # <<>>)
    /\ (recognized_text_queue # <<>>) ~> (recognized_text_queue = <<>> /\ turns > 0)

\* C18: a step of the recognition thread changes nothing but the recognizer's own flag and
\* the two queues, and pending_system_action, the active app and profile and the
\* conversation history change only in a step in which the main thread handles an utterance.
C18_SessionStateOnlyOnMainThread ==
    [][/\ audio_threads' < audio_threads =>
            UNCHANGED <<session_state, listening, status, heard, speech_threads, is_speaking>>
       /\ <<pending_system_action, active_app, active_profile, conversation_history>>'
                # <<pending_system_action, active_app, active_profile, conversation_history>>
            => turns' = turns + 1 /\ audio_threads' = audio_threads]_vars

C18_Witness ==
    /\ is_listening
    /\ audio_threads = 0
    /\ turns > 0
    /\ status = "Listening"
    /\ conversation_history # <<>>

\* C19 as stated: no speak() worker starts playback while the muted flag is set, in any
\* interleaving of the main thread and the workers; a turn handled while muted still gives a
\* response that is recorded as last_response and as the newest history entry.
C19_NoPlaybackStartsWhileMuted ==
    [][LET Speaking(threads) == {i \in DOMAIN threads : threads[i].pc = "speaking"}
       IN  /\ Cardinality(Speaking(speech_threads')) > Cardinality(Speaking(speech_threads))
                => ~muted
           /\ turns' = turns + 1 /\ muted' =>
                /\ last_response' # ""
                /\ spoken' = None
                /\ Len(conversation_history') > Len(conversation_history)
                /\ conversation_history'[Len(conversation_history')]
                        = Entry("assistant", last_response')]_vars

\* C20 as stated: a turn on a non-empty utterance that is neither a mute nor an unmute phrase
\* ends with a non-empty response recorded as the newest (assistant) history entry and as
\* last_response, with the status back at Listening (when listening) or Ready; when the
\* effector the router ran has failed, that response carries the effector's error string.
C20_TurnEndsWithResponseOrErrorString ==
    [][turns' = turns + 1 /\ ~IsMuteUtterance(last_command') /\ ~IsUnmuteUtterance(last_command')
        => /\ last_response' # ""
           /\ conversation_history'[Len(conversation_history')]
                    = Entry("assistant", last_response')
           /\ status' = IF listening' THEN "Listening" ELSE "Ready"
           /\ LET r == cmd_result'
              IN  r \notin {NOT_CALLED, None} /\ Len(r) > 3 /\ SubSeq(r, Len(r) - 2, Len(r)) = ": E"
                    => Contains(last_response', r)]_vars

(***************************************************************************)
(* Properties of the router, process_command: cmd_result, calls and        *)
(* last_command describe the most recent call.                             *)
(***************************************************************************)

\* C21 as stated: active_app and active_profile change only in a router call, and only when
\* the launch or close effector of that call succeeded; a call whose effector failed (its
\* result is the effector's error string) leaves the context as it was.
C21_ContextChangesOnlyOnSuccess ==
    [][/\ <<active_app, active_profile>>' # <<active_app, active_profile>> => turns' = turns + 1
       /\ turns' = turns + 1 /\ Len(cmd_result') > 3
            /\ SubSeq(cmd_result', Len(cmd_result') - 2, Len(cmd_result')) = ": E"
            => UNCHANGED <<active_app, active_profile>>]_vars

\* C22 as stated: 'close chrome' and 'close notepad' run close_application on that program,
\* 'close it' / 'close this' / 'close window' run close_active_window; a successful close of
\* the app that is the active one, and every generic close, leaves active_app and
\* active_profile at None.
C22_CloseCommandsCloseAndReset ==
    [][turns' = turns + 1 =>
        /\ last_command' = "close chrome" =>
                /\ calls' = <<Call("close_application", "chrome.exe")>>
                /\ active_app = "chrome" /\ StartsWith(cmd_result', "Closing application")
                        => active_app' = None /\ active_profile' = None
        /\ last_command' = "close notepad" =>
                /\ calls' = <<Call("close_application", "notepad.exe")>>
                /\ active_app = "notepad" /\ StartsWith(cmd_result', "Closing application")
                        => active_app' = None /\ active_profile' = None
        /\ last_command' \in {"close it", "close this", "close window"} =>
                /\ calls' = <<Call("close_active_window", "")>>
                /\ active_app' = None /\ active_profile' = None]_vars

\* C23 as stated: an utterance of the form 'open chrome with X', 'chrome profile X',
\* 'open profile X' or 'profile X' calls open_chrome_profile with X, and when Chrome was
\* launched with that profile the context is active_app = chrome, active_profile = X.
C23_ProfilePatternsSwitchProfile ==
    [][turns' = turns + 1 =>
        \A pattern \in {<<"open chrome with work", "work">>, <<"chrome profile work", "work">>,
                        <<"open profile alisha", "alisha">>, <<"profile alisha", "alisha">>} :
            last_command' = pattern[1] =>
                /\ calls' = <<Call("open_chrome_profile", pattern[2])>>
                /\ StartsWith(cmd_result', "Opening Chrome with profile")
                        => active_app' = "chrome" /\ active_profile' = Title(pattern[2])]_vars

\* C24 as stated: 'scroll down' / 'page down' invoke scroll_down, 'scroll up' / 'page up'
\* scroll_up, 'click that' / 'click' / 'left click' left_click and 'right click' /
\* 'right-click' right_click, and nothing else.
C24_MousePhraseInvokesItsEffector ==
    /\ last_command \in {"scroll down", "page down"} => calls = <<Call("scroll_down", "")>>
    /\ last_command \in {"scroll up", "page up"} => calls = <<Call("scroll_up", "")>>
    /\ last_command \in {"click that", "click", "left click"} => calls = <<Call("left_click", "")>>
    /\ last_command \in {"right click", "right-click"} => calls = <<Call("right_click", "")>>

\* C25 as stated: 'new tab' / 'open new tab' invoke new_tab, 'next tab' next_tab,
\* 'previous tab' previous_tab and 'close tab' / 'close this tab' close_tab, and the call
\* leaves active_app and active_profile as they were.
C25_TabPhraseInvokesItsEffector ==
    [][turns' = turns + 1 =>
        \A phrase \in {<<"new tab", "new_tab">>, <<"open new tab", "new_tab">>,
                       <<"next tab", "next_tab">>, <<"previous tab", "previous_tab">>,
                       <<"close tab", "close_tab">>, <<"close this tab", "close_tab">>} :
            last_command' = phrase[1] =>
                /\ calls' = <<Call(phrase[2], "")>>
                /\ UNCHANGED <<active_app, active_profile>>]_vars

\* C26 as stated: 'save file with name X on desktop' and 'save file with name X in documents'
\* invoke save_file_with_name with the name X and that location, and not the plain save of
\* the active window.
C26_NamedSaveInvokesSaveWithName ==
    \A named \in {<<"save file with name report on desktop", "desktop">>,
                  <<"save file with name report in documents", "documents">>} :
        last_command = named[1] =>
            /\ calls = <<Call("save_file_with_name", "report")>>
            /\ cmd_result \in save_file_with_name("report", named[2])

\* C27: fill_random_people_in_excel is invoked only by a call that began with
\* active_app = excel and fill_random_people_in_word only by one that began with
\* active_app = word; a data-fill phrase heard with any other active app, none included,
\* invokes neither.
C27_DataFillGatedOnActiveApp ==
    [][turns' = turns + 1 =>
        LET Invoked(effector) == \E i \in DOMAIN calls' : calls'[i] = Call(effector, "")
        IN  /\ Invoked("fill_random_people_in_excel") => active_app = "excel"
            /\ Invoked("fill_random_people_in_word") => active_app = "word"
            /\ last_command' \in {"insert table for 10 people", "ten random people"}
                    /\ active_app \notin {"excel", "word"}
                    => /\ ~Invoked("fill_random_people_in_excel")
                       /\ ~Invoked("fill_random_people_in_word")
                       /\ cmd_result' = None]_vars

C27_Witness ==
    /\ last_command = "insert table for 10 people"
    /\ active_app = "excel"
    /\ calls = <<Call("fill_random_people_in_excel", "")>>

\* C28: a call that reaches the WhatsApp or ChatGPT rule types the address into the active
\* browser window when it began with active_app = chrome, and opens it as a new website with
\* any other active app, whatever the profile; the call leaves active_app and active_profile
\* as they were.
C28_ShortcutBranchesOnActiveApp ==
    [][turns' = turns + 1 =>
        \A site \in {<<"open whatsapp", "https://web.whatsapp.com", "web.whatsapp.com">>,
                     <<"open chatgpt", "https://chatgpt.com", "https://chatgpt.com">>} :
            last_command' = site[1] =>
                /\ calls' = IF active_app = "chrome"
                            THEN <<Call("search_in_active_browser", site[2])>>
                            ELSE <<Call("open_website", site[3])>>
                /\ UNCHANGED <<active_app, active_profile>>]_vars

C28_Witness ==
    /\ last_command = "open whatsapp"
    /\ active_app = "chrome"
    /\ active_profile = None
    /\ calls = <<Call("search_in_active_browser", "https://web.whatsapp.com")>>

\* C29 as stated: a turn that reaches the conversational fallback sends the system prompt,
\* then the last 20 entries of the client's history (all of them if there are fewer) in
\* order, then the utterance as it was recognized.
C29_RequestCarriesLastTwentyEntries ==
    [][turns' = turns + 1 /\ groq_messages' # <<>> =>
        groq_messages' = <<Entry("system", system_prompt)>> \o LastN(groq_history, HistoryLimit)
                            \o <<Entry("user", last_command')>>]_vars

C31_PendingKindNeverReplaced ==
    [][/\ pending_system_action # None /\ pending_system_action' # pending_system_action
            => pending_system_action' = None
       /\ turns' = turns + 1 /\ pending_system_action # None
            /\ last_command' \in {"shutdown", "shut down", "restart", "reboot", "sleep",
                                  "sleep mode"}
            => pending_system_action' = pending_system_action]_vars

C31_Witness ==
    /\ turn_pending = "shutdown"
    /\ last_command = "restart"
    /\ pending_system_action = "shutdown"
    /\ stages = <<Stage("confirmation", TRUE)>>

\* C32: a turn that began with an action pending, on an utterance that holds a positive and
\* a negative keyword and no voice-control keyword, is taken as a confirmation: the power
\* effector of the pending kind is invoked and the pending action is cleared.
C32_PositiveTestedBeforeNegative ==
    /\ turn_pending # None
    /\ _is_positive_confirmation(last_command)
    /\ _is_negative_confirmation(last_command)
    /\ ~IsMuteUtterance(last_command)
    /\ ~IsUnmuteUtterance(last_command)
    => /\ calls = <<PowerCall(turn_pending)>>
       /\ pending_system_action = None
       /\ stages = <<Stage("confirmation", TRUE)>>

C32_Witness ==
    /\ turn_pending = "shutdown"
    /\ last_command = "do not proceed"
    /\ _is_negative_confirmation(last_command)
    /\ calls = <<PowerCall("shutdown")>>
    /\ pending_system_action = None

\* ---------------------------------------------------------------------------------------
\* C33: a call routed to the delete rule whose utterance contains 'delete everything' or
\* 'delete all' invokes select-all and then delete-selection, in that order and in that one
\* call; 'delete this' alone invokes delete-selection only.
C33_DeleteAllSelectsThenDeletes ==
    /\ (turns > 0 /\ last_command \in {"delete everything", "delete all", "please delete all of it"})
            => calls = <<Call("select_all_in_active_window", ""),
                         Call("delete_selection_in_active_window", "")>>
    /\ (turns > 0 /\ last_command = "delete this")
            => calls = <<Call("delete_selection_in_active_window", "")>>
    /\ \A i \in 1..Len(calls) :
            calls[i] = Call("select_all_in_active_window", "") /\ Contains(last_command, "delete")
                => i < Len(calls) /\ calls[i + 1] = Call("delete_selection_in_active_window", "")

C33_Witness ==
    /\ last_command = "please delete all of it"
    /\ calls = <<Call("select_all_in_active_window", ""),
                 Call("delete_selection_in_active_window", "")>>
    /\ cmd_result = "Deleting the current selection in the active window"

C35_QueryNeverBeginsWithFiller ==
    \A text \in {"search for a for loop in python", "search for the news about a cat please",
                 "search for the a team"} :
        (turns > 0 /\ last_command = text) =>
            /\ Len(calls) = 1 /\ calls[1][1] = "search_google"
            /\ LET extracted == Strip(SplitFirstTail(text, "search for"))
                    query == calls[1][2]
               IN /\ Len(query) <= Len(extracted)
                  /\ SubSeq(extracted, Len(extracted) - Len(query) + 1, Len(extracted)) = query
                  /\ \A k \in 1..Len(SearchFillers) : ~StartsWith(query, SearchFillers[k] \o " ")

\* C35 amended: the generic search rule tests each filler word once, in the order for, about,
\* the, a, an, please, against the front of what remains of the extracted string and removes
\* it when it leads; text is removed from the front only, fillers in the middle or at the end
\* stay, and a filler listed no later than the last one removed can still lead the query:
\* 'search for a for loop in python' searches 'for loop in python'.
C35_FillersRemovedFromFrontInOnePass ==
    \A case \in {<<"search for a for loop in python", "for loop in python">>,
                 <<"search for the news about a cat please", "news about a cat please">>,
                 <<"search for the a team", "team">>} :
        (turns > 0 /\ last_command = case[1]) =>
            /\ calls = <<Call("search_google", case[2])>>
            /\ LET extracted == Strip(SplitFirstTail(case[1], "search for"))
                    query == calls[1][2]
               IN /\ Len(query) <= Len(extracted)
                  /\ SubSeq(extracted, Len(extracted) - Len(query) + 1, Len(extracted)) = query
                  /\ ~StartsWith(query, "please ")

C35_Witness ==
    /\ last_command = "search for a for loop in python"
    /\ calls = <<Call("search_google", "for loop in python")>>
    /\ cmd_result = "Opening Google search for: for loop in python"

\* ---------------------------------------------------------------------------------------
\* C36 as stated: the reply is typed into the active window only in a turn that reached the
\* conversational fallback with an authoring verb in the utterance, and never in a turn whose
\* conversational call failed: the error reply is recorded and spoken but not typed.
C36_ErrorReplyIsNeverTyped ==
    /\ (turns > 0 /\ conversation_history # <<>>
            /\ \E k \in 1..Len(calls) : calls[k] = Call("type_text_in_active_window", last_response))
            => /\ stages[Len(stages)] = Stage("conversation", TRUE)
               /\ ContainsAny(Lower(last_command), AuthoringVerbs)
    /\ (turns > 0 /\ last_response = GroqError)
            => /\ conversation_history[Len(conversation_history)] = Entry("assistant", GroqError)
               /\ \A k \in 1..Len(calls) : calls[k][1] # "type_text_in_active_window"

\* ---------------------------------------------------------------------------------------
\* C37: the main thread handles the recognized texts in the order the audio thread enqueued
\* them, each at most once (the n-th turn handles the n-th text enqueued and the queue keeps
\* exactly the texts behind it), and a text is handled only after every status that was
\* queued when the drain began has been applied.
C37_TextsHandledInOrderAfterStatuses ==
    [][turns' = turns + 1 =>
        /\ drain_pc = "texts"
        /\ drain_owed = <<>>
        /\ turns < Len(heard)
        /\ last_command' = heard[turns + 1]
        /\ recognized_text_queue' = SubSeq(heard, turns + 2, Len(heard))]_vars

C37_Witness ==
    /\ drain_pc = "texts"
    /\ heard = <<"open chrome", "hello">>
    /\ turns = 2
    /\ last_command = "hello"
    /\ calls = <<Call("chat_as_atlas", "hello")>>
    /\ status_queue # <<>>
    /\ recognized_text_queue = <<>>

\* ---------------------------------------------------------------------------------------
\* C38 as stated: with overlapping speak() workers, is_speaking is true whenever at least one
\* worker is still speaking, and false only when no worker is speaking.
C38_FlagTrueWhileAnyWorkerSpeaks ==
    (\E i \in DOMAIN speech_threads : speech_threads[i].pc = "speaking") <=> is_speaking

\* ---------------------------------------------------------------------------------------
\* C39 as stated: after any sequence of chat, chat_as_atlas and reset_conversation calls the
\* history of GroqClient has at most 20 entries and alternates user, assistant from a user
\* entry on, and a call whose request failed leaves the history as it was before the call.
C39_GroqHistoryBoundedAndAlternating ==
    [][/\ Len(groq_history') <= HistoryLimit
       /\ \A i \in 1..Len(groq_history') :
              groq_history'[i].role = IF i % 2 = 1 THEN "user" ELSE "assistant"
       /\ (turns' = turns + 1 /\ last_response' \in {ChatError, GroqError})
              => groq_history' = groq_history]_vars

=============================================================================
